---- MODULE Spec2Model ----
(***************************************************************************)
(* Model of the wokhei query core (src/src/query.rs, src/src/item.rs):     *)
(* exhaustive enumeration, header reference resolution, item aggregation,  *)
(* sorting, pagination, count and export, against a relay (event store)    *)
(* whose replies are chosen nondeterministically.                          *)
(*                                                                         *)
(* Strings are sequences of one-character strings; event ids and public    *)
(* keys are byte sequences that to_hex renders as lowercase hex.           *)
(***************************************************************************)
EXTENDS Integers, Sequences, FiniteSets, TLC

\* ------------------------------------------------------------------------
\* Bounds of the model
\* ------------------------------------------------------------------------

\* largest number of events the relay holds in one run
MaxStore == 3

\* largest created_at an event of the relay carries
MaxTs == 2

\* largest number of fetches one enumeration is followed for
MaxPages == 4

\* largest offset / limit argument tried by list_headers and list_items
MaxArg == 3

\* FETCH_PAGE_SIZE of query.rs, scaled down from 500 so that an enumeration
\* needs several pages
FETCH_PAGE_SIZE == 2

\* ------------------------------------------------------------------------
\* Strings, hex encoding
\* ------------------------------------------------------------------------

HexChars == <<"0","1","2","3","4","5","6","7","8","9","a","b","c","d","e","f">>

\* code point of a character (ASCII), as str::cmp compares bytes
Ord(c) ==
  CASE c = "0" -> 48 [] c = "1" -> 49 [] c = "2" -> 50 [] c = "3" -> 51
    [] c = "4" -> 52 [] c = "5" -> 53 [] c = "6" -> 54 [] c = "7" -> 55
    [] c = "8" -> 56 [] c = "9" -> 57 [] c = ":" -> 58 [] c = "+" -> 43
    [] c = "A" -> 65 [] c = "B" -> 66 [] c = "X" -> 88
    [] c = "a" -> 97 [] c = "b" -> 98 [] c = "c" -> 99 [] c = "d" -> 100
    [] c = "e" -> 101 [] c = "f" -> 102 [] c = "x" -> 120 [] c = "z" -> 122
    [] OTHER -> 0

Min2(a, b) == IF a <= b THEN a ELSE b
Max2(a, b) == IF a >= b THEN a ELSE b

\* Option<T>: None is the empty sequence, Some(v) the one-element sequence
None == <<>>
Some(v) == <<v>>
IsSome(o) == o # <<>>
Unwrap(o) == o[1]

\* u64::cmp, with the values of std::cmp::Ordering
CmpNat(a, b) == IF a < b THEN "Less" ELSE IF a > b THEN "Greater" ELSE "Equal"

\* str::cmp: lexicographic comparison of the bytes
RECURSIVE CmpStr(_, _)
CmpStr(s, t) ==
  IF s = <<>> /\ t = <<>> THEN "Equal"
  ELSE IF s = <<>> THEN "Less"
  ELSE IF t = <<>> THEN "Greater"
  ELSE IF Ord(Head(s)) < Ord(Head(t)) THEN "Less"
  ELSE IF Ord(Head(s)) > Ord(Head(t)) THEN "Greater"
  ELSE CmpStr(Tail(s), Tail(t))

\* Ordering::then_with
ThenWith(o1, o2) == IF o1 # "Equal" THEN o1 ELSE o2

\* EventId::to_hex / PublicKey::to_hex: two lowercase hex digits per byte
RECURSIVE to_hex(_)
to_hex(bytes) ==
  IF bytes = <<>> THEN <<>>
  ELSE <<HexChars[(Head(bytes) \div 16) + 1], HexChars[(Head(bytes) % 16) + 1]>>
         \o to_hex(Tail(bytes))

\* u16 rendered in decimal, as format!("{}", kind.as_u16())
RECURSIVE FmtNat(_)
FmtNat(n) ==
  IF n < 10 THEN <<HexChars[n + 1]>>
  ELSE FmtNat(n \div 10) \o <<HexChars[(n % 10) + 1]>>

\* ------------------------------------------------------------------------
\* Events, tags, filters
\* ------------------------------------------------------------------------

KindHeader == 9998
KindHeaderAddr == 39998
KindItem == 9999
KindItemAddr == 39999
KindNote == 1

PkA == <<171>>
PkB == <<28>>

Tag(key, vals) == [k |-> key, v |-> vals]

\* the coordinate "39998:<ab>:x" of header EvH2, as an item's a tag spells it
CoordH2 == <<"3","9","9","9","8",":","a","b",":","x">>

Ev(i, kd, pk, ts, tg) ==
  [id |-> i, kind |-> kd, pubkey |-> pk, created_at |-> ts, tags |-> tg]

\* a kind-9998 header with a names tag
EvH1 == Ev(<<26>>, KindHeader, PkA, 2, <<Tag("names", <<<<"A","b">>, <<"x">>>>)>>)
\* a kind-39998 header with d tag "x"; same created_at as EvH1
EvH2 == Ev(<<10>>, KindHeaderAddr, PkA, 2,
           <<Tag("d", <<<<"x">>>>), Tag("names", <<<<"b">>>>)>>)
\* a kind-39998 header without d tag
EvH3 == Ev(<<159>>, KindHeaderAddr, PkB, 1, <<Tag("title", <<<<"z">>>>)>>)
\* an item that references EvH2 both by event id and by coordinate
EvI1 == Ev(<<160>>, KindItem, PkB, 1,
           <<Tag("e", <<to_hex(<<10>>)>>), Tag("a", <<CoordH2>>)>>)
\* an addressable item that references EvH1 by event id
EvI2 == Ev(<<43>>, KindItemAddr, PkA, 2,
           <<Tag("e", <<to_hex(<<26>>)>>), Tag("d", <<<<"b">>>>)>>)
\* an item that references EvH2 by coordinate only, at the timestamp floor
EvI3 == Ev(<<192>>, KindItem, PkA, 0, <<Tag("a", <<CoordH2>>)>>)
\* an event that is neither header nor item
EvN1 == Ev(<<241>>, KindNote, PkB, 0, <<>>)

Templates == {EvH1, EvH2, EvH3, EvI1, EvI2, EvI3, EvN1}

\* Filter::new(): no constraint.  kinds (empty = any), id, author, #t, #e,
\* #a, limit, until
EmptyFilter ==
  [kinds |-> {}, id |-> None, author |-> None, t |-> None, e |-> None, a |-> None,
   limit |-> None, until |-> None]

KindsFilter(kinds) == [EmptyFilter EXCEPT !.kinds = kinds]

HeaderKinds == {KindHeader, KindHeaderAddr}
ItemKinds == {KindItem, KindItemAddr}

\* the event has a tag <key> whose first value is val
HasTag(ev, key, val) ==
  \E i \in 1..Len(ev.tags) :
     /\ ev.tags[i].k = key
     /\ Len(ev.tags[i].v) >= 1
     /\ ev.tags[i].v[1] = val

\* Filter::match_event, the limit aside
Matches(f, ev) ==
  /\ f.kinds = {} \/ ev.kind \in f.kinds
  /\ IsSome(f.id) => ev.id = Unwrap(f.id)
  /\ IsSome(f.author) => ev.pubkey = Unwrap(f.author)
  /\ IsSome(f.t) => HasTag(ev, "t", Unwrap(f.t))
  /\ IsSome(f.e) => HasTag(ev, "e", Unwrap(f.e))
  /\ IsSome(f.a) => HasTag(ev, "a", Unwrap(f.a))
  /\ IsSome(f.until) => ev.created_at <= Unwrap(f.until)

\* ------------------------------------------------------------------------
\* Projection, sorting, pagination  (query.rs)
\* ------------------------------------------------------------------------

\* value that the loop of event_to_json leaves in a field fed by tag `key`:
\* every tag with that key and at least one value overwrites the field
RECURSIVE LastTagValues(_, _, _)
LastTagValues(tags, key, acc) ==
  IF tags = <<>> THEN acc
  ELSE LastTagValues(Tail(tags), key,
         IF Head(tags).k = key /\ 1 + Len(Head(tags).v) >= 2
         THEN Some(Head(tags).v) ELSE acc)

event_to_json(event) ==
  LET names == LastTagValues(event.tags, "names", None)
      title == LastTagValues(event.tags, "title", None)
      descr == LastTagValues(event.tags, "description", None)
      d     == LastTagValues(event.tags, "d", None)
  IN [event_id   |-> to_hex(event.id),
      kind       |-> event.kind,
      pubkey     |-> to_hex(event.pubkey),
      created_at |-> event.created_at,
      tags       |-> event.tags,
      name       |-> IF IsSome(names) THEN Some(Unwrap(names)[1]) ELSE None,
      aliases    |-> IF IsSome(names) /\ Len(Unwrap(names)) > 1
                     THEN Some(Tail(Unwrap(names))) ELSE None,
      title      |-> IF IsSome(title) THEN Some(Unwrap(title)[1]) ELSE None,
      description |-> IF IsSome(descr) THEN Some(Unwrap(descr)[1]) ELSE None,
      coordinate |-> IF IsSome(d)
                     THEN Some(FmtNat(event.kind) \o <<":">> \o to_hex(event.pubkey)
                               \o <<":">> \o Unwrap(d)[1])
                     ELSE None]

MapJson(events) == [i \in 1..Len(events) |-> event_to_json(events[i])]

\* a comparator that looks at created_at only
CmpJsonDescNoTie(a, b) == CmpNat(b.created_at, a.created_at)

\* comparator of sort_event_json_desc
CmpJsonDesc(a, b) ==
  ThenWith(CmpNat(b.created_at, a.created_at), CmpStr(a.event_id, b.event_id))

\* comparator of sort_events_desc
CmpEventDesc(a, b) ==
  ThenWith(CmpNat(b.created_at, a.created_at), CmpStr(to_hex(a.id), to_hex(b.id)))

\* slice::sort_by is a stable sort: x goes behind every element that does not
\* compare Greater than it
RECURSIVE InsertJson(_, _)
InsertJson(x, sorted) ==
  IF sorted = <<>> THEN <<x>>
  ELSE IF CmpJsonDesc(Head(sorted), x) = "Greater" THEN <<x>> \o sorted
  ELSE <<Head(sorted)>> \o InsertJson(x, Tail(sorted))

RECURSIVE SortJsonFrom(_, _)
SortJsonFrom(rest, sorted) ==
  IF rest = <<>> THEN sorted
  ELSE SortJsonFrom(Tail(rest), InsertJson(Head(rest), sorted))

sort_event_json_desc(events) == SortJsonFrom(events, <<>>)

RECURSIVE InsertEvent(_, _)
InsertEvent(x, sorted) ==
  IF sorted = <<>> THEN <<x>>
  ELSE IF CmpEventDesc(Head(sorted), x) = "Greater" THEN <<x>> \o sorted
  ELSE <<Head(sorted)>> \o InsertEvent(x, Tail(sorted))

RECURSIVE SortEventsFrom(_, _)
SortEventsFrom(rest, sorted) ==
  IF rest = <<>> THEN sorted
  ELSE SortEventsFrom(Tail(rest), InsertEvent(Head(rest), sorted))

sort_events_desc(events) == SortEventsFrom(events, <<>>)

\* a window that ends one element late
paginateLate(values, offset, limit) ==
  IF offset >= Len(values) \/ limit = 0 THEN <<>>
  ELSE SubSeq(values, offset + 1, Min2(offset + limit + 1, Len(values)))

paginate(values, offset, limit) ==
  IF offset >= Len(values) \/ limit = 0 THEN <<>>
  ELSE LET end == Min2(offset + limit, Len(values))
       IN SubSeq(values, offset + 1, end)

\* header_d_tag: the first d tag that has a value
RECURSIVE header_d_tag_of(_)
header_d_tag_of(tags) ==
  IF tags = <<>> THEN None
  ELSE IF Head(tags).k = "d" /\ Len(Head(tags).v) >= 1 THEN Some(Head(tags).v[1])
  ELSE header_d_tag_of(Tail(tags))

header_d_tag(header_event) == header_d_tag_of(header_event.tags)

\* ------------------------------------------------------------------------
\* Parsing of arguments
\* ------------------------------------------------------------------------

IsDigit(c) == c \in {"0","1","2","3","4","5","6","7","8","9"}

\* value of a hex digit; -1 for any other character
HexVal(c) ==
  IF \E i \in 1..16 : HexChars[i] = c
  THEN (CHOOSE i \in 1..16 : HexChars[i] = c) - 1
  ELSE 0 - 1

\* hex decoding of a string into n bytes; None when the length or a digit is
\* wrong
RECURSIVE HexBytes(_)
HexBytes(s) ==
  IF s = <<>> THEN <<>>
  ELSE <<HexVal(s[1]) * 16 + HexVal(s[2])>> \o HexBytes(Tail(Tail(s)))

FromHex(s, n) ==
  IF Len(s) = 2 * n /\ \A i \in 1..Len(s) : HexVal(s[i]) >= 0
  THEN Some(HexBytes(s)) ELSE None

\* EventId::parse and PublicKey::parse of a hex string (the bech32 and
\* nostr: URI spellings are not among the inputs); ids and keys are one byte
IdBytes == 1
EventIdParse(s) == FromHex(s, IdBytes)
PublicKeyParse(s) == FromHex(s, IdBytes)

\* str::parse::<u16>: an optional '+', at least one digit, no overflow
RECURSIVE DigitsValue(_, _)
DigitsValue(s, acc) ==
  IF s = <<>> THEN acc
  ELSE DigitsValue(Tail(s), acc * 10 + HexVal(Head(s)))

U16Max == 65535

ParseU16(s) ==
  LET digits == IF s # <<>> /\ Head(s) = "+" THEN Tail(s) ELSE s
  IN IF digits = <<>> \/ \E i \in 1..Len(digits) : ~IsDigit(digits[i]) THEN None
     ELSE IF DigitsValue(digits, 0) > U16Max THEN None
     ELSE Some(DigitsValue(digits, 0))

\* position of the first ':' of s, 0 when there is none
FirstColon(s) ==
  IF \E i \in 1..Len(s) : s[i] = ":"
  THEN CHOOSE i \in 1..Len(s) : s[i] = ":" /\ \A j \in 1..(i - 1) : s[j] # ":"
  ELSE 0

\* a split at every ':' that keeps the first three segments
Split3Short(s) ==
  LET i == FirstColon(s)
  IN IF i = 0 THEN <<s>>
     ELSE LET rest == SubSeq(s, i + 1, Len(s))
              j == FirstColon(rest)
          IN IF j = 0 THEN <<SubSeq(s, 1, i - 1), rest>>
             ELSE LET last == SubSeq(rest, j + 1, Len(rest))
                      k == FirstColon(last)
                  IN <<SubSeq(s, 1, i - 1), SubSeq(rest, 1, j - 1),
                       IF k = 0 THEN last ELSE SubSeq(last, 1, k - 1)>>

\* input.splitn(3, ':').collect()
Splitn3(s) ==
  LET i == FirstColon(s)
  IN IF i = 0 THEN <<s>>
     ELSE LET rest == SubSeq(s, i + 1, Len(s))
              j == FirstColon(rest)
          IN IF j = 0 THEN <<SubSeq(s, 1, i - 1), rest>>
             ELSE <<SubSeq(s, 1, i - 1), SubSeq(rest, 1, j - 1),
                    SubSeq(rest, j + 1, Len(rest))>>

\* Coordinate::to_string: kind:pubkey-hex:identifier
CoordString(kind, pubkey, d) ==
  FmtNat(kind) \o <<":">> \o to_hex(pubkey) \o <<":">> \o d

\* char::to_lowercase over the letters in use
LowerChar(c) ==
  CASE c = "A" -> "a" [] c = "B" -> "b" [] c = "X" -> "x" [] OTHER -> c

to_lowercase(s) == [i \in 1..Len(s) |-> LowerChar(s[i])]

\* str::contains
Contains(s, sub) ==
  \E i \in 0..(Len(s) - Len(sub)) : SubSeq(s, i + 1, i + Len(sub)) = sub

\* headers.retain(..) of list_headers: keep the records that have a name
\* whose lowercase form contains the lowercased filter
RECURSIVE RetainName(_, _)
RetainName(headers, lower) ==
  IF headers = <<>> THEN <<>>
  ELSE IF IsSome(Head(headers).name)
          /\ Contains(to_lowercase(Unwrap(Head(headers).name)), lower)
       THEN <<Head(headers)>> \o RetainName(Tail(headers), lower)
       ELSE RetainName(Tail(headers), lower)

\* ------------------------------------------------------------------------
\* State
\* ------------------------------------------------------------------------

VARIABLES
  store,    \* the events the relay holds
  mode,     \* how the relay answers a fetch: "any", "newest" or "some"
  op,       \* the running operation and its arguments
  pc,       \* position of the running operation
  conn,     \* connections opened and released by the running operation
  fae,      \* locals of the running fetch_all_events call
  loc,      \* locals of the running operation
  result,   \* what the operation returned
  hist      \* requests the operation has issued so far

vars == <<store, mode, op, pc, conn, fae, loc, result, hist>>

NoResult == [status |-> "none"]
Ok(data) == [status |-> "ok", data |-> data]
Err(code) == [status |-> "err", code |-> code]

NoFae == [base |-> EmptyFilter,
          all_events |-> <<>>, seen_ids |-> {}, until_secs |-> None,
          ret |-> "", out |-> "idle"]

NoHist == [fetches |-> 0, pages |-> 0, received |-> 0, failed |-> FALSE]

\* ------------------------------------------------------------------------
\* The relay
\* ------------------------------------------------------------------------

SeqsUpTo(S, n) == UNION {[1..k -> S] : k \in 0..n}

Range(s) == {s[i] : i \in 1..Len(s)}

\* the events of the store a filter selects
Matching(f) == {e \in store : Matches(f, e)}

\* number of events an honest relay returns for the filter
ReplyLen(f) ==
  IF IsSome(f.limit) THEN Min2(Unwrap(f.limit), Cardinality(Matching(f)))
  ELSE Cardinality(Matching(f))

\* sets of events an honest relay may pick: any ReplyLen(f) matching events
\* ("some"), or the newest ones, ties at the boundary broken either way
\* ("newest")
Picks(f) ==
  {S \in SUBSET Matching(f) :
     /\ Cardinality(S) = ReplyLen(f)
     /\ mode = "newest" =>
          \A x \in S, y \in Matching(f) \ S : x.created_at >= y.created_at}

\* every ordering of a set of events
Orderings(S) ==
  {b \in [1..Cardinality(S) -> S] : \A i, j \in 1..Cardinality(S) : b[i] = b[j] => i = j}

\* the batches fetch_events may return for a filter when it does not fail
Batches(f) ==
  CASE mode = "any" ->
         \* a relay that honours neither filter nor bound, and may repeat events
         SeqsUpTo(store, IF IsSome(f.limit) THEN Unwrap(f.limit) ELSE Cardinality(store))
    [] mode = "newest" ->
         \* nostr_sdk::Events is ordered newest first
         {sort_events_desc(b) : b \in UNION {Orderings(S) : S \in Picks(f)}}
    [] OTHER ->
         UNION {Orderings(S) : S \in Picks(f)}

\* ------------------------------------------------------------------------
\* fetch_all_events  (query.rs 175-224)
\* ------------------------------------------------------------------------

\* a set that reports every id as new
HashSetInsertAlways(seen, id) == TRUE

\* seen_ids.insert(id) is true when the id was not in the set
HashSetInsert(seen, id) == id \notin seen

\* the for loop over a batch: push the events whose id is new
RECURSIVE Collect(_, _, _)
Collect(batch, all, seen) ==
  IF batch = <<>> THEN [all |-> all, seen |-> seen]
  ELSE LET event_id == to_hex(Head(batch).id)
       IN IF HashSetInsert(seen, event_id)
          THEN Collect(Tail(batch), Append(all, Head(batch)), seen \cup {event_id})
          ELSE Collect(Tail(batch), all, seen)

\* oldest_created_at after the for loop (u64::MAX for an empty batch, which
\* the loop never reaches)
Oldest(batch) ==
  CHOOSE m \in {batch[i].created_at : i \in 1..Len(batch)} :
     \A i \in 1..Len(batch) : m <= batch[i].created_at

\* the filter of one iteration
PageFilter(base, until_secs) ==
  [base EXCEPT !.limit = Some(FETCH_PAGE_SIZE), !.until = until_secs]

\* a cursor that moves to the oldest timestamp of the batch itself
NextUntilSame(batch, until_secs) ==
  IF Len(batch) < FETCH_PAGE_SIZE \/ Oldest(batch) = 0 THEN None
  ELSE IF until_secs = Some(Oldest(batch)) THEN None ELSE Some(Oldest(batch))

\* the cursor the loop continues with, None when the loop breaks
NextUntil(batch, until_secs) ==
  IF Len(batch) < FETCH_PAGE_SIZE \/ Oldest(batch) = 0 THEN None
  ELSE LET next_until == Max2(Oldest(batch) - 1, 0)
       IN IF until_secs = Some(next_until) THEN None ELSE Some(next_until)

\* call fetch_all_events(base) and continue at `ret` when it returns
CallFae(base, ret) ==
  [base |-> base, all_events |-> <<>>, seen_ids |-> {}, until_secs |-> None,
   ret |-> ret, out |-> "running"]

\* a loop that answers a failed fetch by issuing it again
FetchPageFailRetried ==
  /\ pc = "fae"
  /\ hist.pages < MaxPages
  /\ hist' = [hist EXCEPT !.fetches = @ + 1, !.pages = @ + 1, !.failed = TRUE]
  /\ UNCHANGED <<store, mode, op, conn, loc, result, fae, pc>>

\* one iteration of the loop whose fetch fails: the error is returned
FetchPageFail ==
  /\ pc = "fae"
  /\ hist.pages < MaxPages
  /\ fae' = [fae EXCEPT !.out = "err"]
  /\ pc' = fae.ret
  /\ hist' = [hist EXCEPT !.fetches = @ + 1, !.pages = @ + 1, !.failed = TRUE]
  /\ UNCHANGED <<store, mode, op, conn, loc, result>>

\* one iteration of the loop whose fetch returns a batch
FetchPage ==
  /\ pc = "fae"
  /\ hist.pages < MaxPages
  /\ \E batch \in Batches(PageFilter(fae.base, fae.until_secs)) :
       LET c == Collect(batch, fae.all_events, fae.seen_ids)
           nxt == IF batch = <<>> THEN None ELSE NextUntil(batch, fae.until_secs)
       IN
       /\ IF batch = <<>>
          THEN /\ fae' = [fae EXCEPT !.out = "ok"]
               /\ pc' = fae.ret
          ELSE /\ fae' = [fae EXCEPT !.all_events = c.all, !.seen_ids = c.seen,
                                     !.until_secs = IF IsSome(nxt) THEN nxt ELSE @,
                                     !.out = IF IsSome(nxt) THEN "running" ELSE "ok"]
               /\ pc' = IF IsSome(nxt) THEN "fae" ELSE fae.ret
       /\ hist' = [hist EXCEPT !.fetches = @ + 1, !.pages = @ + 1,
                                !.received = @ + Len(batch)]
  /\ UNCHANGED <<store, mode, op, conn, loc, result>>

\* ------------------------------------------------------------------------
\* Connection
\* ------------------------------------------------------------------------

\* operations whose first step is connect_client
ConnectsFirst == {"list_headers", "list_items", "count", "export"}

\* connect_client: add_relay fails, the operation returns RelayUnreachable
\* and holds no connection
ConnectClientFail ==
  /\ pc = "idle"
  /\ IF op.name = "inspect" THEN IsSome(EventIdParse(op.event_id))
     ELSE op.name \in ConnectsFirst
  /\ result' = Err("RELAY_UNREACHABLE")
  /\ pc' = "done"
  /\ UNCHANGED <<store, mode, op, conn, fae, loc, hist>>

Opened(c) == [c EXCEPT !.opened = @ + 1]
Closed(c) == [c EXCEPT !.closed = @ + 1]

\* ------------------------------------------------------------------------
\* list_headers  (query.rs 244-364)
\* ------------------------------------------------------------------------

OpListHeaders(author, tag, namef, offset, limit) ==
  [name |-> "list_headers", author |-> author, tag |-> tag, namef |-> namef,
   offset |-> offset, limit |-> limit]

\* build_header_filter: None when the author does not parse
build_header_filter(author, tag) ==
  IF IsSome(author) /\ ~IsSome(PublicKeyParse(Unwrap(author))) THEN None
  ELSE Some([KindsFilter(HeaderKinds) EXCEPT
               !.author = IF IsSome(author) THEN PublicKeyParse(Unwrap(author)) ELSE None,
               !.t = tag])

\* connect, build the filter and start the enumeration; an author that does
\* not parse ends the operation
ListHeadersStart ==
  /\ pc = "idle"
  /\ op.name = "list_headers"
  /\ LET filter == build_header_filter(op.author, op.tag)
     IN IF IsSome(filter)
        THEN /\ conn' = Opened(conn)
             /\ fae' = CallFae(Unwrap(filter), "lh_fetched")
             /\ pc' = "fae"
             /\ UNCHANGED result
        ELSE /\ conn' = Closed(Opened(conn))
             /\ result' = Err("INVALID_EVENT_ID")
             /\ pc' = "done"
             /\ UNCHANGED fae
  /\ UNCHANGED <<store, mode, op, loc, hist>>

\* header_query_command
header_query_command(author, tag, namef, offset, limit) ==
  [cmd |-> "list-headers", author |-> author, tag |-> tag, namef |-> namef,
   offset |-> offset, limit |-> limit]

\* has_more that counts the record at offset + limit as part of the page
HasMoreInclusive(offset, limit, total) == limit > 0 /\ offset + limit + 1 < total

\* offset.saturating_add(limit) < total: the sum saturates at usize::MAX,
\* which no length reaches
HasMore(offset, limit, total) == limit > 0 /\ offset + limit < total

\* the headers list of list_headers: projected, name-filtered, sorted
ListedHeaders(events, namef) ==
  LET headers == MapJson(events)
      kept == IF IsSome(namef)
              THEN RetainName(headers, to_lowercase(Unwrap(namef)))
              ELSE headers
  IN sort_event_json_desc(kept)

\* a next-page offset that starts on the last record of the page
next_offsetOverlap(offset, limit) == offset + limit - 1

\* the offset of the next-page action: offset.saturating_add(limit)
next_offset(offset, limit) == offset + limit

\* the previous-page offset with the limit itself as the step
prev_offsetByLimit(offset, limit) == Max2(offset - limit, 0)

\* prev_offset of list_headers: offset.saturating_sub(limit.max(1))
prev_offset(offset, limit) == Max2(offset - Max2(limit, 1), 0)

\* the recovery offset as the start of the last full page
last_offsetFullPage(total, limit) == (total \div Max2(limit, 1)) * Max2(limit, 1)

\* last_offset of list_headers: ((total - 1) / step) * step with
\* step = limit.max(1); evaluated for total > 0 only
last_offset(total, limit) == ((total - 1) \div Max2(limit, 1)) * Max2(limit, 1)

\* the next actions of list_headers
ListHeadersActions(page_headers, total) ==
  LET first == IF page_headers # <<>> /\ page_headers[1].event_id # <<>>
               THEN <<[label |-> "list-items", id |-> page_headers[1].event_id]>>
               ELSE <<>>
      prev == IF op.offset > 0
              THEN <<[label |-> "previous",
                      q |-> header_query_command(op.author, op.tag, op.namef,
                                                 prev_offset(op.offset, op.limit),
                                                 op.limit)]>>
              ELSE <<>>
      next == IF HasMore(op.offset, op.limit, total)
              THEN <<[label |-> "next",
                      q |-> header_query_command(op.author, op.tag, op.namef,
                                                 next_offset(op.offset, op.limit),
                                                 op.limit)]>>
              ELSE <<>>
      last == IF total > 0 /\ Len(page_headers) = 0
              THEN <<[label |-> "last",
                      q |-> header_query_command(op.author, op.tag, op.namef,
                                                 last_offset(total, op.limit),
                                                 op.limit)]>>
              ELSE <<>>
  IN first \o prev \o next \o last \o <<[label |-> "create-header"]>>

\* list_headers without its NoResults branch
ListHeadersResultNoEmpty ==
  IF fae.out = "err" THEN Err("RELAY_UNREACHABLE")
  ELSE LET headers == ListedHeaders(fae.all_events, op.namef)
           page_headers == paginate(headers, op.offset, op.limit)
       IN Ok([total |-> Len(headers),
              count |-> Len(page_headers),
              offset |-> op.offset,
              limit |-> op.limit,
              has_more |-> HasMore(op.offset, op.limit, Len(headers)),
              headers |-> page_headers,
              actions |-> ListHeadersActions(page_headers, Len(headers))])

\* what the async block of list_headers evaluates to once the enumeration
\* has returned
ListHeadersResult ==
  IF fae.out = "err" THEN Err("RELAY_UNREACHABLE")
  ELSE LET headers == ListedHeaders(fae.all_events, op.namef)
           total == Len(headers)
           page_headers == paginate(headers, op.offset, op.limit)
       IN IF total = 0 /\ op.offset = 0 THEN Err("NO_RESULTS")
          ELSE Ok([total |-> total,
                   count |-> Len(page_headers),
                   offset |-> op.offset,
                   limit |-> op.limit,
                   has_more |-> HasMore(op.offset, op.limit, total),
                   headers |-> page_headers,
                   actions |-> ListHeadersActions(page_headers, total)])

\* the rest of list_headers: shape the result, disconnect, return
ListHeadersFinish ==
  /\ pc = "lh_fetched"
  /\ result' = ListHeadersResult
  /\ conn' = Closed(conn)
  /\ pc' = "done"
  /\ UNCHANGED <<store, mode, op, fae, loc, hist>>

\* ------------------------------------------------------------------------
\* list_items  (query.rs 366-530)
\* ------------------------------------------------------------------------

OpListItems(header_id, header_coordinate, limit) ==
  [name |-> "list_items", header_id |-> header_id,
   header_coordinate |-> header_coordinate, limit |-> limit]

\* fetch_items_by_coordinate up to its fetch: the filter, None when the
\* coordinate is rejected
CoordinateItemsFilter(coord_str, limit) ==
  LET parts == Splitn3(coord_str)
  IN IF Len(parts) # 3 THEN None
     ELSE IF ~IsSome(ParseU16(parts[1])) THEN None
     ELSE IF ~IsSome(PublicKeyParse(parts[2])) THEN None
     ELSE Some([KindsFilter(ItemKinds) EXCEPT
                  !.a = Some(CoordString(Unwrap(ParseU16(parts[1])),
                                         Unwrap(PublicKeyParse(parts[2])), parts[3])),
                  !.limit = Some(limit)])

\* the header reference list_items reports
ListItemsHeaderRef ==
  IF IsSome(op.header_coordinate) THEN Unwrap(op.header_coordinate)
  ELSE IF IsSome(op.header_id) THEN Unwrap(op.header_id)
  ELSE <<>>

\* list_items after the disconnect: NoResults for an empty list
ListItemsResult(all_items) ==
  IF all_items = <<>> THEN Err("NO_RESULTS")
  ELSE Ok([count |-> Len(all_items),
           header_ref |-> ListItemsHeaderRef,
           items |-> all_items,
           actions |-> <<[label |-> "add-item", header_ref |-> ListItemsHeaderRef,
                          coordinate_mode |-> IsSome(op.header_coordinate)],
                         [label |-> "inspect", id |-> all_items[1].event_id]>>])

\* connect, then parse the reference: a rejected coordinate or event id
\* returns through `?`, before the disconnect of line 386
ListItemsStart ==
  /\ pc = "idle"
  /\ op.name = "list_items"
  /\ conn' = Opened(conn)
  /\ IF IsSome(op.header_coordinate)
     THEN LET f == CoordinateItemsFilter(Unwrap(op.header_coordinate), op.limit)
          IN IF IsSome(f)
             THEN /\ loc' = [filter |-> Unwrap(f)]
                  /\ pc' = "li_coord_fetch"
                  /\ UNCHANGED result
             ELSE /\ result' = Err("INVALID_COORDINATE")
                  /\ pc' = "done"
                  /\ UNCHANGED loc
     ELSE LET id_str == IF IsSome(op.header_id) THEN Unwrap(op.header_id) ELSE <<>>
              event_id == EventIdParse(id_str)
          IN IF IsSome(event_id)
             THEN /\ loc' = [event_id |-> Unwrap(event_id)]
                  /\ pc' = "li_e_fetch"
                  /\ UNCHANGED result
             ELSE /\ result' = Err("INVALID_EVENT_ID")
                  /\ pc' = "done"
                  /\ UNCHANGED loc
  /\ UNCHANGED <<store, mode, op, fae, hist>>

\* what `fetch_events(..).await.unwrap_or_default()` may evaluate to: a batch,
\* or the empty list when the fetch failed
FetchOrDefault(f) == [failed : {FALSE}, events : Batches(f)] \cup {[failed |-> TRUE, events |-> <<>>]}

Fetched(h, r) ==
  [h EXCEPT !.fetches = @ + 1, !.received = @ + Len(r.events),
            !.failed = @ \/ r.failed]

\* fetch_items_by_coordinate from its fetch on, then the rest of list_items
ListItemsCoordFetch ==
  /\ pc = "li_coord_fetch"
  /\ \E r \in FetchOrDefault(loc.filter) :
       /\ result' = ListItemsResult(MapJson(r.events))
       /\ hist' = Fetched(hist, r)
  /\ conn' = Closed(conn)
  /\ pc' = "done"
  /\ UNCHANGED <<store, mode, op, fae, loc>>

\* fetch_all_items: the fetch of the items that reference the header by e tag
ListItemsEFetch ==
  /\ pc = "li_e_fetch"
  /\ \E r \in FetchOrDefault([KindsFilter(ItemKinds) EXCEPT
                                !.e = Some(to_hex(loc.event_id)),
                                !.limit = Some(op.limit)]) :
       /\ loc' = [event_id |-> loc.event_id, events |-> r.events]
       /\ hist' = Fetched(hist, r)
  /\ pc' = "li_header_fetch"
  /\ UNCHANGED <<store, mode, op, conn, fae, result>>

\* fetch_all_items: the fetch of the header itself; for a kind-39998 header
\* with a d tag the coordinate fetch follows, otherwise list_items finishes
ListItemsHeaderFetch ==
  /\ pc = "li_header_fetch"
  /\ \E r \in FetchOrDefault([EmptyFilter EXCEPT !.id = Some(loc.event_id),
                                                !.limit = Some(1)]) :
       LET all_items == MapJson(loc.events)
           header_event == IF r.events # <<>> THEN Some(r.events[1]) ELSE None
           d_val == IF IsSome(header_event) THEN header_d_tag(Unwrap(header_event))
                    ELSE None
       IN /\ hist' = Fetched(hist, r)
          /\ IF /\ IsSome(header_event)
                /\ Unwrap(header_event).kind = KindHeaderAddr
                /\ IsSome(d_val)
             THEN /\ loc' = [all_items |-> all_items,
                             filter |-> [KindsFilter(ItemKinds) EXCEPT
                                !.a = Some(CoordString(KindHeaderAddr,
                                             Unwrap(header_event).pubkey, Unwrap(d_val))),
                                !.limit = Some(op.limit)]]
                  /\ pc' = "li_a_fetch"
                  /\ UNCHANGED <<conn, result>>
             ELSE /\ result' = ListItemsResult(all_items)
                  /\ conn' = Closed(conn)
                  /\ pc' = "done"
                  /\ UNCHANGED loc
  /\ UNCHANGED <<store, mode, op, fae>>

\* the loop of fetch_coordinate_items: push the events whose id is new
RECURSIVE PushNewItems(_, _, _)
PushNewItems(coord_events, all_items, existing_ids) ==
  IF coord_events = <<>> THEN all_items
  ELSE LET id == to_hex(Head(coord_events).id)
       IN IF HashSetInsert(existing_ids, id)
          THEN PushNewItems(Tail(coord_events),
                            Append(all_items, event_to_json(Head(coord_events))),
                            existing_ids \cup {id})
          ELSE PushNewItems(Tail(coord_events), all_items, existing_ids)

\* fetch_coordinate_items from its fetch on, then the rest of list_items
ListItemsAFetch ==
  /\ pc = "li_a_fetch"
  /\ \E r \in FetchOrDefault(loc.filter) :
       LET existing_ids == {loc.all_items[i].event_id : i \in 1..Len(loc.all_items)}
           all_items == IF r.failed THEN loc.all_items
                        ELSE PushNewItems(r.events, loc.all_items, existing_ids)
       IN /\ result' = ListItemsResult(all_items)
          /\ hist' = Fetched(hist, r)
  /\ conn' = Closed(conn)
  /\ pc' = "done"
  /\ UNCHANGED <<store, mode, op, fae, loc>>

\* ------------------------------------------------------------------------
\* count_filter and count  (query.rs 226-242, 574-646)
\* ------------------------------------------------------------------------

\* the six filters count passes to count_filter, in order
CountFilters ==
  <<KindsFilter(HeaderKinds), KindsFilter({KindHeader}), KindsFilter({KindHeaderAddr}),
    KindsFilter(ItemKinds), KindsFilter({KindItem}), KindsFilter({KindItemAddr})>>

\* what a successful count_events may report: the number of matching events
\* for a relay that honours the filter, any number otherwise
NativeCounts(f) ==
  IF mode = "any" THEN 0..MaxStore ELSE {Cardinality(Matching(f))}

\* a count_filter call that fell back to an enumeration which lost an event
\* it had received
FallbackCountShort(events) == IF events = <<>> THEN 0 ELSE Len(events) - 1

\* count_filter after its fallback enumeration: events.len()
FallbackCount(events) == Len(events)

\* the result of count once the six counts are in
CountResult(counts) ==
  Ok([headers |-> [total |-> counts[1].n, regular |-> counts[2].n,
                   addressable |-> counts[3].n],
      items |-> [total |-> counts[4].n, regular |-> counts[5].n,
                 addressable |-> counts[6].n],
      actions |-> <<[label |-> "list-headers"], [label |-> "export"]>>])

\* count: connect and enter the first count_filter
CountStart ==
  /\ pc = "idle"
  /\ op.name = "count"
  /\ conn' = Opened(conn)
  /\ loc' = [filters |-> CountFilters, counts |-> <<>>]
  /\ pc' = "count_filter"
  /\ UNCHANGED <<store, mode, op, fae, result, hist>>

\* count_filter called on its own with one filter
CountFilterCall ==
  /\ pc = "idle"
  /\ op.name = "count_filter"
  /\ loc' = [filters |-> <<op.filter>>, counts |-> <<>>]
  /\ pc' = "count_filter"
  /\ UNCHANGED <<store, mode, op, conn, fae, result, hist>>

\* a count_filter call has returned n: the caller goes on to its next call,
\* or returns when that was the last one
CountReturned(entry) ==
  LET counts == Append(loc.counts, entry)
  IN /\ loc' = [loc EXCEPT !.counts = counts]
     /\ IF Len(counts) < Len(loc.filters)
        THEN /\ pc' = "count_filter"
             /\ UNCHANGED <<result, conn>>
        ELSE /\ pc' = "done"
             /\ IF op.name = "count"
                THEN /\ result' = CountResult(counts)
                     /\ conn' = Closed(conn)
                ELSE /\ result' = Ok(entry.n)
                     /\ UNCHANGED conn

\* count_filter: the relay answers the count request
CountNative ==
  /\ pc = "count_filter"
  /\ \E n \in NativeCounts(loc.filters[Len(loc.counts) + 1]) :
       CountReturned([src |-> "native", n |-> n, reply |-> n])
  /\ UNCHANGED <<store, mode, op, fae, hist>>

\* count_filter: the count request fails and the enumeration starts
CountNativeFail ==
  /\ pc = "count_filter"
  /\ fae' = CallFae(loc.filters[Len(loc.counts) + 1], "count_fallback")
  /\ hist' = [hist EXCEPT !.pages = 0]
  /\ pc' = "fae"
  /\ UNCHANGED <<store, mode, op, conn, loc, result>>

\* count_filter after the enumeration: its length, or its error, which ends
\* count
CountFallback ==
  /\ pc = "count_fallback"
  /\ IF fae.out = "err"
     THEN /\ result' = Err("RELAY_UNREACHABLE")
          /\ conn' = IF op.name = "count" THEN Closed(conn) ELSE conn
          /\ pc' = "done"
          /\ UNCHANGED loc
     ELSE CountReturned([src |-> "fallback", n |-> FallbackCount(fae.all_events),
                         reply |-> 0])
  /\ UNCHANGED <<store, mode, op, fae, hist>>

\* ------------------------------------------------------------------------
\* export  (query.rs 532-572, 648-698)
\* ------------------------------------------------------------------------

\* the e-tag filter of fetch_items_for_header_event
ItemsByEvent(header_event) ==
  [KindsFilter(ItemKinds) EXCEPT !.e = Some(to_hex(header_event.id))]

\* the coordinate filter of fetch_items_for_header_event, None when the
\* header is not addressable or has no d tag
ItemsByCoordinate(header_event) ==
  IF header_event.kind = KindHeaderAddr /\ IsSome(header_d_tag(header_event))
  THEN Some([KindsFilter(ItemKinds) EXCEPT
               !.a = Some(CoordString(KindHeaderAddr, header_event.pubkey,
                                      Unwrap(header_d_tag(header_event))))])
  ELSE None

\* the export result
ExportResult(exported_headers, total_items) ==
  Ok([counts |-> [headers |-> Len(exported_headers), items |-> total_items],
      headers |-> exported_headers,
      actions |-> <<[label |-> "count"], [label |-> "list-headers"]>>])

\* export: connect and enumerate the headers
ExportStart ==
  /\ pc = "idle"
  /\ op.name = "export"
  /\ conn' = Opened(conn)
  /\ fae' = CallFae(KindsFilter(HeaderKinds), "ex_headers")
  /\ pc' = "fae"
  /\ UNCHANGED <<store, mode, op, loc, result, hist>>

\* the loop of export reaches header i: its first enumeration starts, or
\* export returns when no header is left
ExportHeaderAt(header_events, i, exported_headers, total_items) ==
  IF i > Len(header_events)
  THEN /\ result' = ExportResult(exported_headers, total_items)
       /\ conn' = Closed(conn)
       /\ pc' = "done"
       /\ loc' = [header_events |-> header_events, i |-> i,
                  exported_headers |-> exported_headers, total_items |-> total_items,
                  items |-> <<>>, seen_ids |-> {}]
       /\ UNCHANGED <<fae, hist>>
  ELSE /\ fae' = CallFae(ItemsByEvent(header_events[i]), "ex_e")
       /\ hist' = [hist EXCEPT !.pages = 0]
       /\ pc' = "fae"
       /\ loc' = [header_events |-> header_events, i |-> i,
                  exported_headers |-> exported_headers, total_items |-> total_items,
                  items |-> <<>>, seen_ids |-> {}]
       /\ UNCHANGED <<result, conn>>

\* an enumeration of export failed: the error is returned after the
\* disconnect
ExportFailed ==
  /\ result' = Err("RELAY_UNREACHABLE")
  /\ conn' = Closed(conn)
  /\ pc' = "done"
  /\ UNCHANGED <<loc, fae, hist>>

\* the headers are in: sort them and start the loop
ExportHeaders ==
  /\ pc = "ex_headers"
  /\ IF fae.out = "err" THEN ExportFailed
     ELSE ExportHeaderAt(sort_events_desc(fae.all_events), 1, <<>>, 0)
  /\ UNCHANGED <<store, mode, op>>

\* an export loop that pushes the entry of a header without adding its
\* items to the total
ExportPushUncounted(items) ==
  LET item_json == MapJson(items)
      entry == [header |-> event_to_json(loc.header_events[loc.i]),
                items_count |-> Len(item_json),
                items |-> item_json]
  IN ExportHeaderAt(loc.header_events, loc.i + 1,
                    Append(loc.exported_headers, entry), loc.total_items)

\* fetch_items_for_header_event returns items: push the entry of the header
\* and go on to the next one
ExportPush(items) ==
  LET item_json == MapJson(items)
      entry == [header |-> event_to_json(loc.header_events[loc.i]),
                items_count |-> Len(item_json),
                items |-> item_json]
  IN ExportHeaderAt(loc.header_events, loc.i + 1,
                    Append(loc.exported_headers, entry),
                    loc.total_items + Len(items))

\* the items that reference the header by e tag are in
ExportEItems ==
  /\ pc = "ex_e"
  /\ IF fae.out = "err" THEN ExportFailed
     ELSE LET c == Collect(fae.all_events, <<>>, {})
              a_filter == ItemsByCoordinate(loc.header_events[loc.i])
          IN IF IsSome(a_filter)
             THEN /\ loc' = [loc EXCEPT !.items = c.all, !.seen_ids = c.seen]
                  /\ fae' = CallFae(Unwrap(a_filter), "ex_a")
                  /\ hist' = [hist EXCEPT !.pages = 0]
                  /\ pc' = "fae"
                  /\ UNCHANGED <<result, conn>>
             ELSE ExportPush(sort_events_desc(c.all))
  /\ UNCHANGED <<store, mode, op>>

\* the items that reference the header by coordinate are in
ExportAItems ==
  /\ pc = "ex_a"
  /\ IF fae.out = "err" THEN ExportFailed
     ELSE ExportPush(sort_events_desc(Collect(fae.all_events, loc.items, loc.seen_ids).all))
  /\ UNCHANGED <<store, mode, op>>

\* ------------------------------------------------------------------------
\* inspect  (query.rs 700-759)
\* ------------------------------------------------------------------------

\* inspect: an event id that does not parse ends it before any connection
InspectInvalidId ==
  /\ pc = "idle"
  /\ op.name = "inspect"
  /\ ~IsSome(EventIdParse(op.event_id))
  /\ result' = Err("INVALID_EVENT_ID")
  /\ pc' = "done"
  /\ UNCHANGED <<store, mode, op, conn, fae, loc, hist>>

\* inspect: connect
InspectStart ==
  /\ pc = "idle"
  /\ op.name = "inspect"
  /\ IsSome(EventIdParse(op.event_id))
  /\ conn' = Opened(conn)
  /\ pc' = "inspect_fetch"
  /\ UNCHANGED <<store, mode, op, fae, loc, result, hist>>

\* the result of inspect for the events its fetch returned
InspectResult(events) ==
  IF events = <<>> THEN Err("HEADER_NOT_FOUND")
  ELSE LET kind == events[1].kind
       IN Ok([event |-> event_to_json(events[1]),
              actions |->
                (IF kind = KindHeader \/ kind = KindHeaderAddr
                 THEN <<[label |-> "list-items", id |-> op.event_id],
                        [label |-> "add-item", id |-> op.event_id]>>
                 ELSE <<>>) \o <<[label |-> "delete", id |-> op.event_id]>>])

\* inspect: the fetch fails
InspectFetchFail ==
  /\ pc = "inspect_fetch"
  /\ result' = Err("RELAY_UNREACHABLE")
  /\ conn' = Closed(conn)
  /\ hist' = [hist EXCEPT !.fetches = @ + 1, !.failed = TRUE]
  /\ pc' = "done"
  /\ UNCHANGED <<store, mode, op, fae, loc>>

\* inspect: the fetch returns
InspectFetch ==
  /\ pc = "inspect_fetch"
  /\ \E batch \in Batches([EmptyFilter EXCEPT
                             !.id = EventIdParse(op.event_id), !.limit = Some(1)]) :
       /\ result' = InspectResult(batch)
       /\ hist' = [hist EXCEPT !.fetches = @ + 1, !.received = @ + Len(batch)]
  /\ conn' = Closed(conn)
  /\ pc' = "done"
  /\ UNCHANGED <<store, mode, op, fae, loc>>

\* ------------------------------------------------------------------------
\* Publishing operations: add_item (item.rs), create_header (header.rs),
\* delete (delete.rs), publish (publish.rs)
\* ------------------------------------------------------------------------

\* id, author and created_at of the event a successful send_event_builder
\* stores on the relay: the signer's key, a fresh id, the current time
NewId == <<85>>
SignerKey == PkA
NewEvent(kind, tags) == Ev(NewId, kind, SignerKey, MaxTs, tags)

\* load_keys as add_item and create_header map it: its own error code
LoadKeysError(keys) == keys

\* str::starts_with
StartsWith(s, prefix) == Len(s) >= Len(prefix) /\ SubSeq(s, 1, Len(prefix)) = prefix

\* str::split_once('=')
SplitOnceEq(s) ==
  IF \E i \in 1..Len(s) : s[i] = "="
  THEN LET i == CHOOSE k \in 1..Len(s) : s[k] = "=" /\ \A j \in 1..(k - 1) : s[j] # "="
       IN Some(<<SubSeq(s, 1, i - 1), SubSeq(s, i + 1, Len(s))>>)
  ELSE None

\* the tags of the --field arguments that hold a '='
RECURSIVE FieldTags(_)
FieldTags(fields) ==
  IF fields = <<>> THEN <<>>
  ELSE LET kv == SplitOnceEq(Head(fields))
       IN (IF IsSome(kv) THEN <<Tag(Unwrap(kv)[1], <<Unwrap(kv)[2]>>)>> ELSE <<>>)
            \o FieldTags(Tail(fields))

build_item_tags(parent_z_ref, resource, fields, d_tag) ==
  <<Tag("z", <<parent_z_ref>>), Tag("r", <<resource>>),
    Tag("client", <<<<"w">>>>)>>
    \o FieldTags(fields)
    \o (IF IsSome(d_tag) THEN <<Tag("d", <<Unwrap(d_tag)>>)>> ELSE <<>>)

\* dtag::item_dtag: a slug and a hash suffix, both functions of the parent
\* reference and the resource; kept as the pair itself
item_dtag(parent_z, anchor_value) == parent_z \o <<"|">> \o anchor_value

\* parse_coordinate_str: <<kind, pubkey, d>>, None for InvalidCoordinate
parse_coordinate_str(input) ==
  LET parts == Splitn3(input)
  IN IF Len(parts) # 3 THEN None
     ELSE IF ~IsSome(ParseU16(parts[1])) THEN None
     ELSE IF ~IsSome(PublicKeyParse(parts[2])) THEN None
     ELSE Some(<<Unwrap(ParseU16(parts[1])), Unwrap(PublicKeyParse(parts[2])), parts[3]>>)

\* parse_coordinate_str called on its own
ParseCoordinate ==
  /\ pc = "idle"
  /\ op.name = "parse_coordinate_str"
  /\ result' = IF IsSome(parse_coordinate_str(op.input))
               THEN Ok(Unwrap(parse_coordinate_str(op.input)))
               ELSE Err("INVALID_COORDINATE")
  /\ pc' = "done"
  /\ UNCHANGED <<store, mode, op, conn, fae, loc, hist>>

\* a coordinate branch that hands back the string it was given once it
\* parses, whatever its kind and spelling
ResolveCoordinateRaw(coord_str) ==
  IF IsSome(parse_coordinate_str(coord_str)) THEN Ok(coord_str)
  ELSE Err("INVALID_COORDINATE")

\* the coordinate branch of resolve_header_ref: the canonical reference, or
\* the error code
ResolveCoordinate(coord_str) ==
  LET p == parse_coordinate_str(coord_str)
  IN IF ~IsSome(p) THEN Err("INVALID_COORDINATE")
     ELSE IF Unwrap(p)[1] # KindHeaderAddr THEN Err("INVALID_COORDINATE")
     ELSE Ok(FmtNat(KindHeaderAddr) \o <<":">> \o to_hex(Unwrap(p)[2]) \o <<":">>
               \o Unwrap(p)[3])

\* the d tag resolve_header_by_id looks for: the first d tag with a value
RECURSIVE FirstDValue(_)
FirstDValue(tags) ==
  IF tags = <<>> THEN None
  ELSE IF Head(tags).k = "d" /\ Len(Head(tags).v) >= 1 THEN Some(Head(tags).v[1])
  ELSE FirstDValue(Tail(tags))

\* resolve_header_by_id that returns the event id for either header kind
ResolveFetchedAsId(event_id, events) ==
  IF events = <<>> THEN Err("HEADER_NOT_FOUND")
  ELSE IF events[1].kind \in {KindHeader, KindHeaderAddr} THEN Ok(to_hex(event_id))
  ELSE Err("INVALID_ARGS")

\* resolve_header_by_id once its fetch has returned `events`
ResolveFetched(event_id, events) ==
  IF events = <<>> THEN Err("HEADER_NOT_FOUND")
  ELSE LET header_event == events[1]
       IN IF header_event.kind = KindHeaderAddr
          THEN LET d_val == FirstDValue(header_event.tags)
               IN IF IsSome(d_val)
                  THEN Ok(FmtNat(KindHeaderAddr) \o <<":">> \o to_hex(header_event.pubkey)
                            \o <<":">> \o Unwrap(d_val))
                  ELSE Err("HEADER_MISSING_D_TAG")
          ELSE IF header_event.kind = KindHeader THEN Ok(to_hex(event_id))
          ELSE Err("INVALID_ARGS")

OpAddItem(keys, header, header_coordinate, resource, fields, addressable, d_tag) ==
  [name |-> "add_item", keys |-> keys, header |-> header,
   header_coordinate |-> header_coordinate, resource |-> resource,
   fields |-> fields, addressable |-> addressable, d_tag |-> d_tag]

\* what ends add_item before it builds its client: the error code, or "ok"
AddItemPrecheck ==
  IF op.keys # "ok" THEN LoadKeysError(op.keys)
  ELSE IF ~IsSome(op.header) /\ ~IsSome(op.header_coordinate) THEN "MISSING_ARG"
  ELSE "ok"

\* add_item returns before it has a client
AddItemRejected ==
  /\ pc = "idle"
  /\ op.name = "add_item"
  /\ AddItemPrecheck # "ok"
  /\ result' = Err(AddItemPrecheck)
  /\ pc' = "done"
  /\ UNCHANGED <<store, mode, op, conn, fae, loc, hist>>

\* add_item: connect and resolve the header reference up to its fetch
AddItemStart ==
  /\ pc = "idle"
  /\ op.name = "add_item"
  /\ AddItemPrecheck = "ok"
  /\ IF IsSome(op.header_coordinate)
     THEN LET r == ResolveCoordinate(Unwrap(op.header_coordinate))
          IN IF r.status = "ok"
             THEN /\ loc' = [parent_z_ref |-> r.data]
                  /\ conn' = Opened(conn)
                  /\ pc' = "ai_send"
                  /\ UNCHANGED result
             ELSE /\ result' = r
                  /\ conn' = Closed(Opened(conn))
                  /\ pc' = "done"
                  /\ UNCHANGED loc
     ELSE LET event_id == EventIdParse(Unwrap(op.header))
          IN IF IsSome(event_id)
             THEN /\ loc' = [event_id |-> Unwrap(event_id)]
                  /\ conn' = Opened(conn)
                  /\ pc' = "ai_header_fetch"
                  /\ UNCHANGED result
             ELSE /\ result' = Err("INVALID_EVENT_ID")
                  /\ conn' = Closed(Opened(conn))
                  /\ pc' = "done"
                  /\ UNCHANGED loc
  /\ UNCHANGED <<store, mode, op, fae, hist>>

\* resolve_header_by_id: the fetch fails
AddItemHeaderFetchFail ==
  /\ pc = "ai_header_fetch"
  /\ result' = Err("RELAY_UNREACHABLE")
  /\ conn' = Closed(conn)
  /\ hist' = [hist EXCEPT !.fetches = @ + 1, !.failed = TRUE]
  /\ pc' = "done"
  /\ UNCHANGED <<store, mode, op, fae, loc>>

\* resolve_header_by_id: the fetch returns; an error ends add_item
AddItemHeaderFetch ==
  /\ pc = "ai_header_fetch"
  /\ \E batch \in Batches([EmptyFilter EXCEPT !.id = Some(loc.event_id),
                                              !.limit = Some(1)]) :
       LET r == ResolveFetched(loc.event_id, batch)
       IN /\ hist' = [hist EXCEPT !.fetches = @ + 1, !.received = @ + Len(batch)]
          /\ IF r.status = "ok"
             THEN /\ loc' = [parent_z_ref |-> r.data, header_event |-> batch[1]]
                  /\ pc' = "ai_send"
                  /\ UNCHANGED <<result, conn>>
             ELSE /\ result' = r
                  /\ conn' = Closed(conn)
                  /\ pc' = "done"
                  /\ UNCHANGED loc
  /\ UNCHANGED <<store, mode, op, fae>>

\* the d tag add_item gives the item
AddItemDTag ==
  IF op.addressable /\ ~IsSome(op.d_tag)
  THEN Some(item_dtag(loc.parent_z_ref, op.resource))
  ELSE op.d_tag

\* the event add_item sends
AddItemEvent ==
  NewEvent(IF op.addressable THEN KindItemAddr ELSE KindItem,
           build_item_tags(loc.parent_z_ref, op.resource, op.fields, AddItemDTag))

\* a send_event_builder that the relay rejects or that does not get through
SendFail ==
  /\ pc \in {"ai_send", "ch_send", "del_send", "pub_send"}
  /\ result' = Err("RELAY_REJECTED")
  /\ conn' = Closed(conn)
  /\ pc' = "done"
  /\ UNCHANGED <<store, mode, op, fae, loc, hist>>

\* add_item: the relay accepts the item
AddItemSend ==
  /\ pc = "ai_send"
  /\ store' = store \cup {AddItemEvent}
  /\ result' = Ok([event_id |-> to_hex(AddItemEvent.id),
                   kind |-> AddItemEvent.kind,
                   header_ref |-> loc.parent_z_ref,
                   resource |-> op.resource,
                   d_tag |-> AddItemDTag,
                   coordinate_mode |->
                     IF IsSome(op.header_coordinate) THEN TRUE
                     ELSE StartsWith(loc.parent_z_ref, FmtNat(KindHeaderAddr) \o <<":">>)])
  /\ conn' = Closed(conn)
  /\ pc' = "done"
  /\ UNCHANGED <<mode, op, fae, loc, hist>>

OpCreateHeader(keys, name, title, addressable, d_tag) ==
  [name |-> "create_header", keys |-> keys, hname |-> name, aliases |-> <<>>,
   title |-> title, description |-> None, required |-> <<>>, recommended |-> <<>>,
   tags_list |-> <<>>, alt |-> None, addressable |-> addressable, d_tag |-> d_tag]

\* Tag::hashtag for every entry of tags_list
HashTags(tags_list) == [i \in 1..Len(tags_list) |-> Tag("t", <<tags_list[i]>>)]

build_header_tags(params) ==
  <<Tag("names", <<params.hname>> \o params.aliases), Tag("title", <<params.title>>)>>
    \o (IF IsSome(params.description)
        THEN <<Tag("description", <<Unwrap(params.description)>>)>> ELSE <<>>)
    \o (IF params.required # <<>> THEN <<Tag("required", params.required)>> ELSE <<>>)
    \o (IF params.recommended # <<>>
        THEN <<Tag("recommended", params.recommended)>> ELSE <<>>)
    \o HashTags(params.tags_list)
    \o <<Tag("alt", <<IF IsSome(params.alt) THEN Unwrap(params.alt)
                      ELSE params.hname \o <<"-">> \o params.title>>),
         Tag("client", <<<<"w">>>>)>>
    \o (IF IsSome(params.d_tag) THEN <<Tag("d", <<Unwrap(params.d_tag)>>)>> ELSE <<>>)

\* what ends create_header before it builds its client
CreateHeaderPrecheck ==
  IF op.keys # "ok" THEN LoadKeysError(op.keys)
  ELSE IF op.addressable /\ ~IsSome(op.d_tag) THEN "MISSING_ARG"
  ELSE "ok"

OpDelete(keys, event_id_strs) ==
  [name |-> "delete", keys |-> keys, event_id_strs |-> event_id_strs]

\* what ends delete before it builds its client: any load_keys error is
\* reported as KeysNotFound, the first id that does not parse as
\* InvalidEventId
DeletePrecheck ==
  IF op.keys # "ok" THEN "KEYS_NOT_FOUND"
  ELSE IF \E i \in 1..Len(op.event_id_strs) : ~IsSome(EventIdParse(op.event_id_strs[i]))
  THEN "INVALID_EVENT_ID"
  ELSE "ok"

OpPublish(keys, input) == [name |-> "publish", keys |-> keys, input |-> input]

\* what ends publish before it builds its client
PublishPrecheck ==
  IF op.keys # "ok" THEN "KEYS_NOT_FOUND"
  ELSE IF op.input.read # "ok" THEN op.input.read
  ELSE "ok"

\* the tags publish copies from the JSON: the arrays with two strings or more
RECURSIVE PublishTags(_)
PublishTags(tags_arr) ==
  IF tags_arr = <<>> THEN <<>>
  ELSE (IF Len(Head(tags_arr)) >= 2
        THEN <<Tag(Head(tags_arr)[1], Tail(Head(tags_arr)))>> ELSE <<>>)
         \o PublishTags(Tail(tags_arr))

Precheck ==
  CASE op.name = "create_header" -> CreateHeaderPrecheck
    [] op.name = "delete" -> DeletePrecheck
    [] op.name = "publish" -> PublishPrecheck
    [] OTHER -> "ok"

\* create_header, delete or publish returns before it has a client
PublishRejected ==
  /\ pc = "idle"
  /\ op.name \in {"create_header", "delete", "publish"}
  /\ Precheck # "ok"
  /\ result' = Err(Precheck)
  /\ pc' = "done"
  /\ UNCHANGED <<store, mode, op, conn, fae, loc, hist>>

\* create_header, delete or publish: connect
PublishStart ==
  /\ pc = "idle"
  /\ op.name \in {"create_header", "delete", "publish"}
  /\ Precheck = "ok"
  /\ conn' = Opened(conn)
  /\ pc' = CASE op.name = "create_header" -> "ch_send"
             [] op.name = "delete" -> "del_send"
             [] OTHER -> "pub_send"
  /\ UNCHANGED <<store, mode, op, fae, loc, result, hist>>

\* create_header: the relay accepts the header
CreateHeaderSend ==
  /\ pc = "ch_send"
  /\ LET kind == IF op.addressable THEN KindHeaderAddr ELSE KindHeader
         event == NewEvent(kind, build_header_tags(op))
     IN /\ store' = store \cup {event}
        /\ result' = Ok([event_id |-> to_hex(event.id),
                         kind |-> kind,
                         pubkey |-> to_hex(SignerKey),
                         coordinate |-> IF IsSome(op.d_tag)
                                        THEN Some(CoordString(kind, SignerKey, Unwrap(op.d_tag)))
                                        ELSE None])
  /\ conn' = Closed(conn)
  /\ pc' = "done"
  /\ UNCHANGED <<mode, op, fae, loc, hist>>

\* delete: the relay accepts the deletion request (and may or may not act on
\* it: the store keeps its events)
DeleteSend ==
  /\ pc = "del_send"
  /\ result' = Ok([deletion_event_id |-> to_hex(NewId), deleted_ids |-> op.event_id_strs])
  /\ conn' = Closed(conn)
  /\ pc' = "done"
  /\ UNCHANGED <<store, mode, op, fae, loc, hist>>

\* publish: the relay accepts the event
PublishSend ==
  /\ pc = "pub_send"
  /\ LET kind_num == (IF IsSome(op.input.kind) THEN Unwrap(op.input.kind) ELSE 1)
                        % (U16Max + 1)
         event == NewEvent(kind_num, PublishTags(op.input.tags))
     IN /\ store' = store \cup {event}
        /\ result' = Ok([event_id |-> to_hex(event.id), kind |-> kind_num])
  /\ conn' = Closed(conn)
  /\ pc' = "done"
  /\ UNCHANGED <<mode, op, fae, loc, hist>>

\* add_relay fails in add_item, create_header, delete or publish
AddRelayFail ==
  /\ pc = "idle"
  /\ IF op.name = "add_item" THEN AddItemPrecheck = "ok"
     ELSE op.name \in {"create_header", "delete", "publish"} /\ Precheck = "ok"
  /\ result' = Err("RELAY_UNREACHABLE")
  /\ pc' = "done"
  /\ UNCHANGED <<store, mode, op, conn, fae, loc, hist>>

\* ------------------------------------------------------------------------
\* AppError and its conversion to CommandError  (error.rs 4-115)
\* ------------------------------------------------------------------------

\* the variants that carry a string, and those that carry nothing
FieldVariants ==
  {"KeysNotFound", "RelayUnreachable", "RelayRejected", "HeaderNotFound",
   "InvalidEventId", "KeysSaveFailed", "KeysAlreadyExist", "InvalidCoordinate",
   "Io", "InvalidJson"}
UnitVariants == {"HeaderMissingDTag", "NoResults", "InvalidNsec"}
AppErrorVariants == FieldVariants \cup UnitVariants

\* an AppError value: its variant and the string it carries (empty for a
\* unit variant)
AppError(variant, field) == [variant |-> variant, field |-> field]

\* AppError::code
code(err) ==
  CASE err.variant = "KeysNotFound" -> "KEYS_NOT_FOUND"
    [] err.variant = "RelayUnreachable" -> "RELAY_UNREACHABLE"
    [] err.variant = "RelayRejected" -> "RELAY_REJECTED"
    [] err.variant = "HeaderNotFound" -> "HEADER_NOT_FOUND"
    [] err.variant = "HeaderMissingDTag" -> "HEADER_MISSING_D_TAG"
    [] err.variant = "InvalidEventId" -> "INVALID_EVENT_ID"
    [] err.variant = "NoResults" -> "NO_RESULTS"
    [] err.variant = "InvalidNsec" -> "INVALID_NSEC"
    [] err.variant = "KeysSaveFailed" -> "KEYS_SAVE_FAILED"
    [] err.variant = "KeysAlreadyExist" -> "KEYS_ALREADY_EXIST"
    [] err.variant = "InvalidCoordinate" -> "INVALID_COORDINATE"
    [] err.variant = "Io" -> "IO_ERROR"
    [] err.variant = "InvalidJson" -> "INVALID_JSON"

\* a retryable that also retries a rejected event
retryableRejected(err) == err.variant \in {"RelayUnreachable", "RelayRejected"}

\* AppError::retryable
retryable(err) == err.variant = "RelayUnreachable"

\* the Display of thiserror: the text before the field, the field, the text
\* after it
to_string(err) ==
  CASE err.variant = "KeysNotFound" -> <<"Keys not found at ", err.field, "">>
    [] err.variant = "RelayUnreachable" -> <<"Relay unreachable: ", err.field, "">>
    [] err.variant = "RelayRejected" -> <<"Relay rejected event: ", err.field, "">>
    [] err.variant = "HeaderNotFound" -> <<"Header not found: ", err.field, "">>
    [] err.variant = "HeaderMissingDTag" ->
         <<"Header missing d-tag (required for addressable events)", <<>>, "">>
    [] err.variant = "InvalidEventId" -> <<"Invalid event ID: ", err.field, "">>
    [] err.variant = "NoResults" -> <<"No results for query", <<>>, "">>
    [] err.variant = "InvalidNsec" -> <<"Invalid nsec format", <<>>, "">>
    [] err.variant = "KeysSaveFailed" -> <<"Failed to save keys: ", err.field, "">>
    [] err.variant = "KeysAlreadyExist" ->
         <<"Keys already exist at ", err.field, " - use --force to overwrite">>
    [] err.variant = "InvalidCoordinate" ->
         <<"Invalid coordinate format: ", err.field, " - expected kind:pubkey:d-tag">>
    [] err.variant = "Io" -> <<"IO error: ", err.field, "">>
    [] err.variant = "InvalidJson" -> <<"Invalid JSON: ", err.field, "">>

\* AppError::fix: a text per variant, with the field in it for two of them
fix(err) ==
  IF err.variant \in {"RelayUnreachable", "KeysAlreadyExist"}
  THEN <<"fix", err.variant, err.field>>
  ELSE <<"fix", err.variant, <<>>>>

\* impl From<AppError> for CommandError
CommandErrorFrom(err) ==
  [message |-> to_string(err), code |-> code(err), fix |-> fix(err),
   retryable |-> retryable(err)]

\* an AppError is converted
ConvertError ==
  /\ pc = "idle"
  /\ op.name = "convert"
  /\ result' = Ok(CommandErrorFrom(op.err))
  /\ pc' = "done"
  /\ UNCHANGED <<store, mode, op, conn, fae, loc, hist>>

\* ------------------------------------------------------------------------
\* An enumeration on its own: fetch_all_events called with a base filter
\* ------------------------------------------------------------------------

BaseFilters ==
  {KindsFilter(HeaderKinds), [KindsFilter(ItemKinds) EXCEPT !.a = Some(CoordH2)]}

Restamp(e, ts) == [e EXCEPT !.created_at = ts]

\* stores of at most MaxStore of the given events, with every choice of
\* created_at
Stores(events) ==
  UNION {{{Restamp(e, ts[e]) : e \in S} : ts \in [S -> 0..MaxTs]} :
           S \in {T \in SUBSET events : Cardinality(T) <= MaxStore}}

Enumerate ==
  /\ pc = "idle"
  /\ op.name = "enumerate"
  /\ fae' = CallFae(op.base, "enumerated")
  /\ pc' = "fae"
  /\ UNCHANGED <<store, mode, op, conn, loc, result, hist>>

Enumerated ==
  /\ pc = "enumerated"
  /\ result' = IF fae.out = "ok" THEN Ok(fae.all_events) ELSE Err("RELAY_UNREACHABLE")
  /\ pc' = "done"
  /\ UNCHANGED <<store, mode, op, conn, loc, fae, hist>>

InitCommon ==
  /\ pc = "idle"
  /\ conn = [opened |-> 0, closed |-> 0]
  /\ fae = NoFae
  /\ loc = [x |-> 0]
  /\ result = NoResult
  /\ hist = NoHist

\* enumeration against a relay that may answer anything
InitEnumAny ==
  /\ InitCommon
  /\ mode = "any"
  /\ store \in Stores({EvH1, EvH2, EvH3, EvI1})
  /\ op \in {[name |-> "enumerate", base |-> b] : b \in BaseFilters}

\* enumeration against a relay that holds a fixed set of events and answers
\* every fetch with the newest matching events up to the limit
InitEnumNewest ==
  /\ InitCommon
  /\ mode = "newest"
  /\ store \in Stores(Templates)
  /\ op \in {[name |-> "enumerate", base |-> b] : b \in BaseFilters}

NextEnum == Enumerate \/ FetchPage \/ FetchPageFail \/ Enumerated

SpecEnumAny == InitEnumAny /\ [][NextEnum]_vars

SpecEnumNewest == InitEnumNewest /\ [][NextEnum]_vars

\* ------------------------------------------------------------------------
\* The listing operations against a relay that holds a fixed set of events
\* ------------------------------------------------------------------------

\* stores of at most MaxStore of the events above, as they are
FixedStores == {T \in SUBSET Templates : Cardinality(T) <= MaxStore}

Authors == {None, Some(to_hex(PkB)), Some(<<"z","z">>)}

NameFilters == {None, Some(<<"B">>), Some(<<"a">>)}

\* header ids given to list_items: the three headers, an item, an id the
\* relay does not hold, and a string that is no event id
HeaderIdArgs ==
  {to_hex(EvH1.id), to_hex(EvH2.id), to_hex(EvH3.id), to_hex(EvI1.id),
   <<"7","7">>, <<"z","z">>}

\* coordinates given to list_items
CoordArgs ==
  {CoordH2,
   <<"3","9","9","9","8",":","a","b">>,
   <<"x",":","a","b",":","x">>,
   <<"3","9","9","9","8",":","z","z",":","x">>,
   <<"9","9","9","8",":","1","c",":","x">>}

ListHeadersOps ==
  {OpListHeaders(a, None, n, o, l) :
     a \in Authors, n \in NameFilters, o \in 0..MaxArg, l \in 0..MaxArg}

ListItemsOps ==
  {OpListItems(Some(h), None, l) : h \in HeaderIdArgs, l \in 0..MaxArg}
    \cup {OpListItems(None, Some(c), l) : c \in CoordArgs, l \in 0..MaxArg}

InitList ==
  /\ InitCommon
  /\ mode \in {"newest", "some"}
  /\ store \in FixedStores
  /\ op \in ListHeadersOps \cup ListItemsOps

NextList ==
  \/ ConnectClientFail
  \/ ListHeadersStart \/ FetchPage \/ FetchPageFail \/ ListHeadersFinish
  \/ ListItemsStart \/ ListItemsCoordFetch \/ ListItemsEFetch
  \/ ListItemsHeaderFetch \/ ListItemsAFetch

SpecList == InitList /\ [][NextList]_vars

\* ------------------------------------------------------------------------
\* The two sorts on their own
\* ------------------------------------------------------------------------

\* sort_events_desc on a list of events, sort_event_json_desc on its
\* projection
SortEvents ==
  /\ pc = "idle"
  /\ op.name = "sort"
  /\ result' = Ok([json |-> sort_event_json_desc(MapJson(op.events)),
                   raw |-> sort_events_desc(op.events)])
  /\ pc' = "done"
  /\ UNCHANGED <<store, mode, op, conn, fae, loc, hist>>

\* every list of at most MaxStore events of a store, in every order
InitSort ==
  /\ InitCommon
  /\ mode = "newest"
  /\ store \in Stores({EvH1, EvH2, EvH3, EvI1})
  /\ op \in {[name |-> "sort", events |-> x] : x \in SeqsUpTo(store, MaxStore)}

NextSort == SortEvents

SpecSort == InitSort /\ [][NextSort]_vars

\* ------------------------------------------------------------------------
\* add_item against a relay that holds a fixed set of events
\* ------------------------------------------------------------------------

\* a kind-39998 header whose first d tag has no value and whose second one
\* holds a ':'
EvH4 == Ev(<<77>>, KindHeaderAddr, PkB, 1,
           <<Tag("d", <<>>), Tag("d", <<<<"a",":","b">>>>), Tag("d", <<<<"x">>>>)>>)
\* a kind-39998 header with an empty d tag
EvH5 == Ev(<<254>>, KindHeaderAddr, PkA, 0, <<Tag("d", <<<<>>>>)>>)

HeaderStores ==
  {T \in SUBSET {EvH1, EvH2, EvH3, EvH4, EvH5, EvI1} : Cardinality(T) <= MaxStore}

KeyStates == {"ok", "KEYS_NOT_FOUND", "INVALID_NSEC"}

AddItemOps ==
  {OpAddItem(k, None, None, <<"r">>, <<>>, FALSE, None) : k \in KeyStates}
    \cup {OpAddItem("ok", Some(h), None, <<"r">>, <<<<"k","=","v">>, <<"k">>>>, ad, d) :
            h \in HeaderIdArgs \cup {to_hex(EvH4.id), to_hex(EvH5.id)},
            ad \in BOOLEAN, d \in {None, Some(<<"q">>)}}
    \cup {OpAddItem("ok", h, Some(c), <<"r">>, <<>>, ad, None) :
            h \in {None, Some(to_hex(EvH1.id))},
            c \in CoordArgs \cup {CoordString(KindHeaderAddr, PkB, <<"a",":","b">>)},
            ad \in BOOLEAN}

InitAddItem ==
  /\ InitCommon
  /\ mode \in {"newest", "some"}
  /\ store \in HeaderStores
  /\ op \in AddItemOps

NextAddItem ==
  \/ AddItemRejected \/ AddRelayFail \/ AddItemStart
  \/ AddItemHeaderFetchFail \/ AddItemHeaderFetch
  \/ SendFail \/ AddItemSend

SpecAddItem == InitAddItem /\ [][NextAddItem]_vars

\* ------------------------------------------------------------------------
\* count_filter on its own, against a relay that may answer anything
\* ------------------------------------------------------------------------

InitCountFilter ==
  /\ InitCommon
  /\ mode \in {"any", "newest"}
  /\ store \in Stores({EvH1, EvH2, EvI1})
  /\ op \in {[name |-> "count_filter", filter |-> b] : b \in BaseFilters}

NextCountFilter ==
  \/ CountFilterCall \/ CountNative \/ CountNativeFail
  \/ FetchPage \/ FetchPageFail \/ CountFallback

SpecCountFilter == InitCountFilter /\ [][NextCountFilter]_vars

\* ------------------------------------------------------------------------
\* export against a relay that holds a fixed set of events
\* ------------------------------------------------------------------------

\* three headers, two of them with one item each
ExportScenario == {EvH1, EvH2, EvH3, EvI1, EvI2}

InitExport ==
  /\ InitCommon
  /\ mode \in {"newest", "some"}
  /\ store \in FixedStores \cup {ExportScenario}
  /\ op = [name |-> "export"]

NextExport ==
  \/ ConnectClientFail \/ ExportStart \/ FetchPage \/ FetchPageFail
  \/ ExportHeaders \/ ExportEItems \/ ExportAItems

SpecExport == InitExport /\ [][NextExport]_vars

\* ------------------------------------------------------------------------
\* Every operation that connects, against a relay that holds a fixed set of
\* events
\* ------------------------------------------------------------------------

InspectOps ==
  {[name |-> "inspect", event_id |-> h] :
     h \in {to_hex(EvH1.id), to_hex(EvI1.id), <<"7","7">>, <<"z","z">>}}

CreateHeaderOps ==
  {OpCreateHeader(k, <<"n">>, <<"t">>, ad, d) :
     k \in KeyStates, ad \in BOOLEAN, d \in {None, Some(<<"q">>)}}

DeleteOps ==
  {OpDelete(k, ids) :
     k \in KeyStates,
     ids \in {<<to_hex(EvH1.id)>>, <<to_hex(EvH1.id), <<"z","z">>>>}}

PublishInputs ==
  {[read |-> "IO_ERROR", kind |-> None, tags |-> <<>>],
   [read |-> "INVALID_JSON", kind |-> None, tags |-> <<>>],
   [read |-> "ok", kind |-> None, tags |-> <<<<"t">>, <<"t", "x">>>>],
   [read |-> "ok", kind |-> Some(U16Max + 2), tags |-> <<>>]}

PublishOps == {OpPublish(k, i) : k \in KeyStates, i \in PublishInputs}

OpsStores == {T \in SUBSET {EvH1, EvH2, EvI1, EvI3} : Cardinality(T) <= MaxStore}

OpsListHeaders == {OpListHeaders(None, None, None, o, 1) : o \in 0..1}

OpsListItems ==
  {OpListItems(Some(h), None, MaxArg) : h \in {to_hex(EvH2.id), <<"z","z">>}}
    \cup {OpListItems(None, Some(c), MaxArg) :
            c \in {CoordH2, <<"x",":","a","b",":","x">>}}

OpsAddItem ==
  {OpAddItem(k, h, None, <<"r">>, <<>>, TRUE, None) :
     k \in {"ok", "KEYS_NOT_FOUND"}, h \in {None, Some(to_hex(EvH2.id)), Some(<<"z","z">>)}}
    \cup {OpAddItem("ok", None, Some(c), <<"r">>, <<>>, FALSE, None) :
            c \in {CoordH2, <<"x",":","a","b",":","x">>}}

InitOps ==
  /\ InitCommon
  /\ mode \in {"newest", "some"}
  /\ store \in OpsStores
  /\ op \in OpsListHeaders \cup OpsListItems \cup {[name |-> "count"], [name |-> "export"]}
            \cup InspectOps \cup OpsAddItem \cup CreateHeaderOps \cup DeleteOps
            \cup PublishOps

NextOps ==
  \/ ConnectClientFail \/ FetchPage \/ FetchPageFail
  \/ ListHeadersStart \/ ListHeadersFinish
  \/ ListItemsStart \/ ListItemsCoordFetch \/ ListItemsEFetch
  \/ ListItemsHeaderFetch \/ ListItemsAFetch
  \/ CountStart \/ CountNative \/ CountNativeFail \/ CountFallback
  \/ ExportStart \/ ExportHeaders \/ ExportEItems \/ ExportAItems
  \/ InspectInvalidId \/ InspectStart \/ InspectFetchFail \/ InspectFetch
  \/ AddItemRejected \/ AddRelayFail \/ AddItemStart
  \/ AddItemHeaderFetchFail \/ AddItemHeaderFetch \/ SendFail \/ AddItemSend
  \/ PublishRejected \/ PublishStart
  \/ CreateHeaderSend \/ DeleteSend \/ PublishSend

SpecOps == InitOps /\ [][NextOps]_vars

\* ------------------------------------------------------------------------
\* The operations that take a header by event id, and export, against a
\* relay that holds a fixed set of events
\* ------------------------------------------------------------------------

RefStores ==
  {T \in SUBSET {EvH1, EvH2, EvH3, EvN1, EvI1, EvI2} : Cardinality(T) <= MaxStore}

\* the ids of HeaderIdArgs and the id of an event that is neither header nor
\* item
RefIdArgs == HeaderIdArgs \cup {to_hex(EvN1.id)}

RefOps ==
  {OpAddItem("ok", Some(h), None, <<"r">>, <<>>, FALSE, None) : h \in RefIdArgs}
    \cup {OpListItems(Some(h), None, l) : h \in RefIdArgs, l \in {1, MaxArg}}
    \cup {[name |-> "export"]}

InitRefs ==
  /\ InitCommon
  /\ mode \in {"newest", "some"}
  /\ store \in RefStores
  /\ op \in RefOps

NextRefs ==
  \/ ConnectClientFail \/ AddRelayFail \/ FetchPage \/ FetchPageFail
  \/ AddItemStart \/ AddItemHeaderFetchFail \/ AddItemHeaderFetch
  \/ SendFail \/ AddItemSend
  \/ ListItemsStart \/ ListItemsEFetch \/ ListItemsHeaderFetch \/ ListItemsAFetch
  \/ ExportStart \/ ExportHeaders \/ ExportEItems \/ ExportAItems

SpecRefs == InitRefs /\ [][NextRefs]_vars

\* ------------------------------------------------------------------------
\* Coordinate strings, and add_item given a coordinate
\* ------------------------------------------------------------------------

\* spellings of the kind segment: 39998 plain, signed and zero-padded, other
\* numbers, a number past 16 bits, and text that is no number
KindTexts ==
  {FmtNat(KindHeaderAddr), <<"+">> \o FmtNat(KindHeaderAddr),
   <<"0">> \o FmtNat(KindHeaderAddr), FmtNat(KindHeader), FmtNat(U16Max + 1),
   <<"-", "1">>, <<"x">>, <<>>}

\* spellings of the author segment: two keys, and text that is no key
KeyTexts == {to_hex(PkA), to_hex(PkB), <<"z", "z">>, <<"a">>, <<>>}

\* identifiers: plain, empty, and with colons of their own
IdentTexts == {<<"x">>, <<>>, <<"a", ":", "b">>, <<":">>}

\* strings of three segments or more, and strings with fewer than two colons
CoordInputs ==
  {k \o <<":">> \o a \o <<":">> \o d : k \in KindTexts, a \in KeyTexts, d \in IdentTexts}
    \cup {k \o <<":">> \o a : k \in KindTexts, a \in KeyTexts}
    \cup KindTexts

InitCoordRef ==
  /\ InitCommon
  /\ mode \in {"newest", "some"}
  /\ store \in {{}, {EvH1, EvH2}}
  /\ op \in {OpAddItem("ok", h, Some(c), <<"r">>, <<>>, FALSE, None) :
               h \in {None, Some(to_hex(EvH1.id))}, c \in CoordInputs}

NextCoordRef == AddRelayFail \/ AddItemStart \/ SendFail \/ AddItemSend

SpecCoordRef == InitCoordRef /\ [][NextCoordRef]_vars

\* ------------------------------------------------------------------------
\* add_item followed by a query, against one relay
\* ------------------------------------------------------------------------

\* a limit no smaller than the number of events the relay can hold
JoinLimit == MaxStore + 1

JoinQueries ==
  {OpListItems(Some(to_hex(h.id)), None, JoinLimit) : h \in {EvH1, EvH2}}
    \cup {OpListItems(None, Some(CoordH2), JoinLimit), [name |-> "export"]}

\* the next command of the session starts, against the relay as add_item
\* left it
NextCommand ==
  /\ pc = "done"
  /\ op.name = "add_item"
  /\ result.status = "ok"
  /\ op' \in JoinQueries
  /\ pc' = "idle"
  /\ conn' = [opened |-> 0, closed |-> 0]
  /\ fae' = NoFae
  /\ loc' = [x |-> 0]
  /\ result' = NoResult
  /\ hist' = NoHist
  /\ UNCHANGED <<store, mode>>

InitJoin ==
  /\ InitCommon
  /\ mode \in {"newest", "some"}
  /\ store \in SUBSET {EvH1, EvH2, EvI1}
  /\ op \in {OpAddItem("ok", Some(to_hex(h.id)), None, <<"r">>, <<>>, ad, None) :
               h \in {EvH1, EvH2}, ad \in BOOLEAN}
            \cup {OpAddItem("ok", None, Some(CoordH2), <<"r">>, <<>>, ad, None) :
                    ad \in BOOLEAN}

NextJoin ==
  \/ AddRelayFail \/ AddItemStart \/ AddItemHeaderFetchFail \/ AddItemHeaderFetch
  \/ SendFail \/ AddItemSend \/ NextCommand
  \/ ConnectClientFail \/ FetchPage \/ FetchPageFail
  \/ ListItemsStart \/ ListItemsCoordFetch \/ ListItemsEFetch
  \/ ListItemsHeaderFetch \/ ListItemsAFetch
  \/ ExportStart \/ ExportHeaders \/ ExportEItems \/ ExportAItems

SpecJoin == InitJoin /\ [][NextJoin]_vars

\* ------------------------------------------------------------------------
\* An enumeration over events of pairwise distinct timestamps
\* ------------------------------------------------------------------------

\* the largest timestamp and the largest number of events of such a store
MaxStamp == 6
MaxDistinct == 5

\* the event of timestamp t: kind 9998 at even t, kind 39998 at odd t
EvAt(t) ==
  Ev(<<t + 1>>, IF t % 2 = 0 THEN KindHeader ELSE KindHeaderAddr, PkA, t, <<>>)

DistinctStores ==
  {{EvAt(t) : t \in T} : T \in {U \in SUBSET (0..MaxStamp) : Cardinality(U) <= MaxDistinct}}

InitEnumDistinct ==
  /\ InitCommon
  /\ mode = "newest"
  /\ store \in DistinctStores
  /\ op \in {[name |-> "enumerate", base |-> b] :
               b \in {KindsFilter(HeaderKinds), KindsFilter({KindHeader})}}

SpecEnumDistinct == InitEnumDistinct /\ [][NextEnum]_vars

\* ------------------------------------------------------------------------
\* The conversion of every AppError
\* ------------------------------------------------------------------------

\* the strings an error carries: paths, urls, reasons of up to MaxArg
\* characters
ErrorFields == UNION {[1..n -> {"a", "/"}] : n \in 0..MaxArg}

AppErrors ==
  {AppError(v, f) : v \in FieldVariants, f \in ErrorFields}
    \cup {AppError(v, <<>>) : v \in UnitVariants}

InitError ==
  /\ InitCommon
  /\ mode = "newest"
  /\ store = {}
  /\ op \in {[name |-> "convert", err |-> e] : e \in AppErrors}

NextError == ConvertError

SpecError == InitError /\ [][NextError]_vars

InitCoord ==
  /\ InitCommon
  /\ mode = "newest"
  /\ store = {}
  /\ op \in {[name |-> "parse_coordinate_str", input |-> c] : c \in CoordInputs}

NextCoord == ParseCoordinate

SpecCoord == InitCoord /\ [][NextCoord]_vars

\* enumeration over events of pairwise distinct timestamps against a relay
\* that honours the filter, the until bound and the limit, and answers with
\* any matching events in any order
InitEnumSome ==
  /\ InitCommon
  /\ mode = "some"
  /\ store \in DistinctStores
  /\ op \in {[name |-> "enumerate", base |-> b] :
               b \in {KindsFilter(HeaderKinds), KindsFilter({KindHeader})}}

SpecEnumSome == InitEnumSome /\ [][NextEnum]_vars

\* ------------------------------------------------------------------------
\* A walk through the pages of list_headers: each command is the next-page
\* action of the one before
\* ------------------------------------------------------------------------

\* stores of headers of pairwise distinct timestamps, and the named headers
WalkStores == DistinctStores \cup SUBSET {EvH1, EvH2, EvH3}

WalkOps ==
  {OpListHeaders(None, None, n, 0, l) : n \in {None, Some(<<"b">>)}, l \in 1..MaxArg}

\* the pages of the walk so far, and their number
NoWalk == [fetches |-> 0, pages |-> 0, received |-> 0, failed |-> FALSE,
           walk |-> <<>>, calls |-> 0]

\* the caller runs the next-page action of the result: a new list_headers
\* command with the query of the action, against the same relay
FollowNextPage ==
  /\ pc = "done"
  /\ op.name = "list_headers"
  /\ result.status = "ok"
  /\ \E i \in 1..Len(result.data.actions) :
       /\ result.data.actions[i].label = "next"
       /\ LET q == result.data.actions[i].q
          IN op' = OpListHeaders(q.author, q.tag, q.namef, q.offset, q.limit)
  /\ hist' = [NoWalk EXCEPT !.walk = hist.walk \o result.data.headers,
                            !.calls = hist.calls + 1]
  /\ pc' = "idle"
  /\ conn' = [opened |-> 0, closed |-> 0]
  /\ fae' = NoFae
  /\ loc' = [x |-> 0]
  /\ result' = NoResult
  /\ UNCHANGED <<store, mode>>

InitWalk ==
  /\ pc = "idle"
  /\ conn = [opened |-> 0, closed |-> 0]
  /\ fae = NoFae
  /\ loc = [x |-> 0]
  /\ result = NoResult
  /\ hist = NoWalk
  /\ mode = "newest"
  /\ store \in WalkStores
  /\ op \in WalkOps

NextWalk ==
  \/ ConnectClientFail
  \/ ListHeadersStart \/ FetchPage \/ FetchPageFail \/ ListHeadersFinish
  \/ FollowNextPage

SpecWalk == InitWalk /\ [][NextWalk]_vars

\* ------------------------------------------------------------------------
\* list_headers followed by its recovery action
\* ------------------------------------------------------------------------

RecoverOps ==
  {OpListHeaders(None, None, n, o, l) :
     n \in {None, Some(<<"b">>)}, o \in 0..MaxArg, l \in 0..MaxArg}

\* the caller runs the 'Jump to the last non-empty page' action of the
\* result: a new list_headers command with the query of the action, against
\* the same relay
FollowLastPage ==
  /\ pc = "done"
  /\ op.name = "list_headers"
  /\ result.status = "ok"
  /\ \E i \in 1..Len(result.data.actions) :
       /\ result.data.actions[i].label = "last"
       /\ LET q == result.data.actions[i].q
          IN op' = OpListHeaders(q.author, q.tag, q.namef, q.offset, q.limit)
  /\ hist' = [NoWalk EXCEPT !.calls = 1]
  /\ pc' = "idle"
  /\ conn' = [opened |-> 0, closed |-> 0]
  /\ fae' = NoFae
  /\ loc' = [x |-> 0]
  /\ result' = NoResult
  /\ UNCHANGED <<store, mode>>

InitRecover ==
  /\ pc = "idle"
  /\ conn = [opened |-> 0, closed |-> 0]
  /\ fae = NoFae
  /\ loc = [x |-> 0]
  /\ result = NoResult
  /\ hist = NoWalk
  /\ mode = "newest"
  /\ store \in WalkStores
  /\ op \in RecoverOps

NextRecover ==
  \/ ConnectClientFail
  \/ ListHeadersStart \/ FetchPage \/ FetchPageFail \/ ListHeadersFinish
  \/ FollowLastPage

SpecRecover == InitRecover /\ [][NextRecover]_vars

\* ------------------------------------------------------------------------
\* count against a newest-first relay that answers or fails each count
\* request
\* ------------------------------------------------------------------------

InitCount ==
  /\ InitCommon
  /\ mode = "newest"
  /\ store \in Stores({EvH1, EvH2, EvH3, EvI1})
  /\ op = [name |-> "count"]

NextCount ==
  \/ ConnectClientFail
  \/ CountStart \/ CountNative \/ CountNativeFail
  \/ FetchPage \/ FetchPageFail \/ CountFallback

SpecCount == InitCount /\ [][NextCount]_vars

\* ------------------------------------------------------------------------
\* list_headers over headers with several d tags, with an empty one, with
\* none
\* ------------------------------------------------------------------------

InitProject ==
  /\ InitCommon
  /\ mode = "newest"
  /\ store \in HeaderStores
  /\ op \in {OpListHeaders(None, None, None, o, MaxArg) : o \in 0..1}

NextProject ==
  \/ ConnectClientFail
  \/ ListHeadersStart \/ FetchPage \/ FetchPageFail \/ ListHeadersFinish

SpecProject == InitProject /\ [][NextProject]_vars

\* ------------------------------------------------------------------------
\* Properties
\* ------------------------------------------------------------------------

\* the event ids of a list of events, in order
Ids(events) == [i \in 1..Len(events) |-> to_hex(events[i].id)]

NoRepeat(s) == \A i, j \in 1..Len(s) : s[i] = s[j] => i = j

EnumReturned == op.name = "enumerate" /\ pc = "done" /\ result.status = "ok"

\* C1: whatever batches the relay returns, overlapping or repeated, the list
\* fetch_all_events returns holds every event id at most once
C1_NoDuplicateIds == EnumReturned => NoRepeat(Ids(result.data))

\* an enumeration of several pages that received some event more than once
C1_Witness ==
  /\ EnumReturned
  /\ hist.pages >= 2
  /\ Len(result.data) >= 2
  /\ hist.received > Len(result.data)

\* C2: against an unchanged relay that serves the newest matching events
\* first, fetch_all_events returns exactly the events matching the base
\* filter, each once
C2_EnumerationComplete ==
  EnumReturned =>
    /\ Range(result.data) = Matching(op.base)
    /\ NoRepeat(Ids(result.data))

\* the total order of listings: created_at descending, then event id ascending
Before(a, b) ==
  \/ a.created_at > b.created_at
  \/ a.created_at = b.created_at /\ CmpStr(a.event_id, b.event_id) = "Less"

\* the records of the enumerated events that pass the name filter
NameFiltered ==
  {r \in {event_to_json(e) : e \in Range(fae.all_events)} :
     IsSome(op.namef) =>
        /\ IsSome(r.name)
        /\ Contains(to_lowercase(Unwrap(r.name)), to_lowercase(Unwrap(op.namef)))}

\* the one arrangement of a set of records in the total order
InTotalOrder(R) ==
  CHOOSE s \in [1..Cardinality(R) -> R] :
     \A i, j \in 1..Cardinality(R) : i < j => Before(s[i], s[j])

\* values[offset .. min(offset + limit, len)]
Slice(values, offset, limit) ==
  [i \in 1..(Min2(offset + limit, Len(values)) - offset) |-> values[offset + i]]

ListHeadersReturned == op.name = "list_headers" /\ pc = "done" /\ result.status = "ok"

\* C3: the page list_headers returns is paginate's window
\* values[offset .. min(offset+limit, len)] of the name-filtered records in
\* the total order (created_at descending, event id ascending), and it is
\* empty, not an error, when offset >= len or limit = 0
C3_PageIsSliceOfSorted ==
  ListHeadersReturned =>
    LET full == InTotalOrder(NameFiltered)
    IN /\ result.data.total = Len(full)
       /\ result.data.headers = Slice(full, op.offset, op.limit)
       /\ result.data.headers = paginate(full, op.offset, op.limit)
       /\ (op.offset >= Len(full) \/ op.limit = 0) => result.data.headers = <<>>

\* a page from the middle of three records
C3_Witness ==
  /\ ListHeadersReturned
  /\ result.data.total = 3
  /\ op.offset = 1
  /\ op.limit = 1
  /\ Len(result.data.headers) = 1

\* the events of the store a listing query selects, the limit aside
QueryMatches ==
  IF op.name = "list_headers"
  THEN {e \in Matching(Unwrap(build_header_filter(op.author, op.tag))) :
          IsSome(op.namef) =>
             /\ IsSome(event_to_json(e).name)
             /\ Contains(to_lowercase(Unwrap(event_to_json(e).name)),
                         to_lowercase(Unwrap(op.namef)))}
  ELSE IF IsSome(op.header_coordinate)
  THEN Matching([Unwrap(CoordinateItemsFilter(Unwrap(op.header_coordinate), op.limit))
                   EXCEPT !.limit = None])
  ELSE LET id == Unwrap(EventIdParse(Unwrap(op.header_id)))
       IN Matching([KindsFilter(ItemKinds) EXCEPT !.e = Some(to_hex(id))])
          \cup {i \in store :
                  \E h \in store :
                     /\ h.id = id
                     /\ h.kind = KindHeaderAddr
                     /\ IsSome(header_d_tag(h))
                     /\ Matches([KindsFilter(ItemKinds) EXCEPT
                           !.a = Some(CoordString(KindHeaderAddr, h.pubkey,
                                                  Unwrap(header_d_tag(h))))], i)}

\* a listing query has run to its end, every fetch it issued succeeded and
\* nothing in the store matches it
EmptyQueryDone ==
  /\ op.name \in {"list_headers", "list_items"}
  /\ pc = "done"
  /\ hist.fetches >= 1
  /\ ~hist.failed
  /\ QueryMatches = {}

\* C6 as claimed: a listing query that matches nothing and whose fetches all
\* succeed returns NoResults, for every offset and limit
C6_EmptyIsNoResults == EmptyQueryDone => result = Err("NO_RESULTS")

\* C6 as the code has it: NoResults for list_items and for list_headers at
\* offset 0; list_headers at an offset > 0 returns an empty page with total 0;
\* never RelayUnreachable
C6_EmptyIsNoResultsAtOffsetZero ==
  EmptyQueryDone =>
    IF op.name = "list_headers" /\ op.offset > 0
    THEN /\ result.status = "ok"
         /\ result.data.total = 0
         /\ result.data.headers = <<>>
    ELSE result = Err("NO_RESULTS")

\* list_headers at offset 0 whose name filter leaves none of the headers the
\* relay returned
C6_Witness ==
  /\ EmptyQueryDone
  /\ op.name = "list_headers"
  /\ op.offset = 0
  /\ fae.all_events # <<>>
  /\ result = Err("NO_RESULTS")

Count(s, v) == Cardinality({i \in 1..Len(s) : s[i] = v})

\* the lists that hold the same elements as x, as often
Rearrangements(x) ==
  {q \in [1..Len(x) -> Range(x)] : \A v \in Range(x) : Count(q, v) = Count(x, v)}

SortDone == op.name = "sort" /\ pc = "done"

\* C4: the sorted list is the input rearranged by created_at descending and,
\* for equal created_at, event id ascending; every permutation of the input
\* sorts to the same list, sorting again changes nothing, and the sort of the
\* projected records agrees with the sort of the raw events
C4_SortTotalOrder ==
  SortDone =>
    LET x == op.events
        j == result.data.json
        r == result.data.raw
    IN /\ Len(j) = Len(x)
       /\ \A v \in Range(j) \cup Range(MapJson(x)) : Count(j, v) = Count(MapJson(x), v)
       /\ \A i, k \in 1..Len(j) :
            i < k =>
              \/ j[i].created_at > j[k].created_at
              \/ /\ j[i].created_at = j[k].created_at
                 /\ CmpStr(j[i].event_id, j[k].event_id) # "Greater"
       /\ \A q \in Rearrangements(x) :
            /\ sort_event_json_desc(MapJson(q)) = j
            /\ sort_events_desc(q) = r
       /\ sort_event_json_desc(j) = j
       /\ sort_events_desc(r) = r
       /\ MapJson(r) = j

\* three events, the first two of equal created_at with the larger id first,
\* the newest one last
C4_Witness ==
  /\ SortDone
  /\ Len(op.events) = 3
  /\ op.events[1].created_at = op.events[2].created_at
  /\ CmpStr(to_hex(op.events[1].id), to_hex(op.events[2].id)) = "Greater"
  /\ op.events[3].created_at > op.events[1].created_at
  /\ result.data.raw = <<op.events[3], op.events[2], op.events[1]>>


\* add_item has resolved its header by event id to a kind-39998 header
ResolvedById ==
  /\ op.name = "add_item"
  /\ ~IsSome(op.header_coordinate)
  /\ "header_event" \in DOMAIN loc
  /\ loc.header_event.kind = KindHeaderAddr

\* the coordinate "39998:<author hex>:<d>" of a header with a d tag
CoordinateOf(h) == CoordString(KindHeaderAddr, h.pubkey, Unwrap(FirstDValue(h.tags)))

\* C5: a kind-39998 header with a d tag resolves by event id to the same
\* reference string as its coordinate does in the coordinate branch of
\* resolve_header_ref; with a relay that answers in full, resolving by id a
\* header it holds does not fail
C5_ReferenceRoundTrip ==
  /\ ResolvedById =>
       /\ IsSome(FirstDValue(loc.header_event.tags))
       /\ ResolveCoordinate(CoordinateOf(loc.header_event)).status = "ok"
       /\ loc.parent_z_ref = ResolveCoordinate(CoordinateOf(loc.header_event)).data
  /\ \A h \in store :
       (/\ op.name = "add_item" /\ mode = "newest"
        /\ AddItemPrecheck = "ok" /\ ~IsSome(op.header_coordinate)
        /\ op.header = Some(to_hex(h.id))
        /\ h.kind = KindHeaderAddr /\ IsSome(FirstDValue(h.tags))
        /\ pc \in {"ai_send", "done"} /\ conn.opened = 1 /\ ~hist.failed)
         => ResolvedById /\ loc.header_event = h

\* add_item has published an item under a header resolved by id whose d tag
\* holds a ':' and follows a d tag without value
C5_Witness ==
  /\ ResolvedById
  /\ loc.header_event = EvH4
  /\ loc.parent_z_ref = CoordString(KindHeaderAddr, PkB, <<"a",":","b">>)
  /\ pc = "done"
  /\ result.status = "ok"


\* an operation has returned after its connect succeeded
ReturnedConnected == pc = "done" /\ conn.opened >= 1

\* C7: an operation opens at most one connection, and when it returns after
\* its connect succeeded it has disconnected exactly once, on every exit path
C7_ConnectionReleased ==
  /\ conn.opened <= 1
  /\ conn.closed <= conn.opened
  /\ ReturnedConnected => conn.closed = 1

\* C8: an operation one of whose fetches failed returns RelayUnreachable
C8_FailedFetchIsUnreachable ==
  (pc = "done" /\ hist.failed) => result = Err("RELAY_UNREACHABLE")

CountFilterReturned == op.name = "count_filter" /\ pc = "done"

RECURSIVE SumItemsCount(_)
SumItemsCount(entries) ==
  IF entries = <<>> THEN 0 ELSE Head(entries).items_count + SumItemsCount(Tail(entries))

ExportReturned == op.name = "export" /\ pc = "done" /\ result.status = "ok"

\* C10: in a successful export counts.headers is the number of entries, every
\* items_count is the length of its items list, counts.items is the sum of
\* the items_count, and no item appears twice under one header
C10_ExportCounts ==
  ExportReturned =>
    LET entries == result.data.headers
    IN /\ result.data.counts.headers = Len(entries)
       /\ \A i \in 1..Len(entries) :
            /\ entries[i].items_count = Len(entries[i].items)
            /\ NoRepeat([j \in 1..Len(entries[i].items) |-> entries[i].items[j].event_id])
       /\ result.data.counts.items = SumItemsCount(entries)

\* the export of three headers, two with one item and one with none, where
\* the item of the kind-39998 header references it by id and by coordinate
C10_Witness ==
  /\ ExportReturned
  /\ store = ExportScenario
  /\ result.data.counts = [headers |-> 3, items |-> 2]
  /\ \E i \in 1..3 :
       /\ result.data.headers[i].header.event_id = to_hex(EvH2.id)
       /\ result.data.headers[i].items_count = 1
       /\ result.data.headers[i].items[1].event_id = to_hex(EvI1.id)
  /\ \E i \in 1..3 : result.data.headers[i].items_count = 0


\* the header id an operation was given, None when it was given none
GivenHeaderId ==
  IF op.name = "add_item" /\ ~IsSome(op.header_coordinate) THEN op.header
  ELSE IF op.name = "list_items" /\ ~IsSome(op.header_coordinate) THEN op.header_id
  ELSE None

\* an operation given the id of h has returned, after a connect that
\* succeeded, from a relay that answers in full and whose fetches all
\* returned
ResolvedFor(h) ==
  /\ GivenHeaderId = Some(to_hex(h.id))
  /\ mode = "newest"
  /\ pc = "done"
  /\ conn.opened = 1
  /\ ~hist.failed

\* a kind-39998 header without a d tag that holds a value
MissingDTag(h) == h.kind = KindHeaderAddr /\ ~IsSome(header_d_tag(h))

\* C11: add_item and list_items given the id of a kind-39998 header without
\* d tag return HEADER_MISSING_D_TAG, and no successful export holds an entry
\* for such a header
C11_MissingDTagFails ==
  /\ \A h \in store :
       (MissingDTag(h) /\ ResolvedFor(h)) => result = Err("HEADER_MISSING_D_TAG")
  /\ ExportReturned =>
       \A i \in 1..Len(result.data.headers) :
         result.data.headers[i].header.kind = KindHeaderAddr
           => IsSome(header_d_tag_of(result.data.headers[i].header.tags))


\* an operation given a well-formed header id that no event of the store has
\* has returned, after a connect that succeeded and fetches that all returned
ResolvedUnknownId ==
  /\ IsSome(GivenHeaderId)
  /\ IsSome(EventIdParse(Unwrap(GivenHeaderId)))
  /\ \A h \in store : h.id # Unwrap(EventIdParse(Unwrap(GivenHeaderId)))
  /\ mode = "newest"
  /\ pc = "done"
  /\ conn.opened = 1
  /\ ~hist.failed

\* the reference an operation that got as far as publishing or listing
\* worked with
UsedReference ==
  IF op.name = "add_item" THEN loc.parent_z_ref ELSE to_hex(loc.event_id)

\* C12: given the id of a kind-9998 event, add_item and list_items work with
\* that event id as reference; given the id of an event of another kind than
\* 9998 and 39998 they fail with an error that is none of HEADER_NOT_FOUND,
\* INVALID_EVENT_ID, NO_RESULTS; given an id no event has they fail with
\* HEADER_NOT_FOUND
C12_HeaderIdKinds ==
  /\ \A h \in store :
       ResolvedFor(h) =>
         IF h.kind = KindHeader
         THEN UsedReference = to_hex(h.id)
         ELSE h.kind # KindHeaderAddr =>
                /\ result.status = "err"
                /\ result.code \notin {"HEADER_NOT_FOUND", "INVALID_EVENT_ID", "NO_RESULTS"}
  /\ ResolvedUnknownId => result = Err("HEADER_NOT_FOUND")


\* add_item was given a coordinate and is past resolve_header_ref
CoordinateResolved ==
  /\ op.name = "add_item"
  /\ IsSome(op.header_coordinate)
  /\ conn.opened = 1
  /\ pc \in {"ai_send", "done"}

\* ref is "39998:<author hex>:<identifier>" for the author and the
\* identifier that the string input names
CanonicalFor(ref, input) ==
  LET parts == Splitn3(ref)
      given == Splitn3(input)
  IN /\ Len(parts) = 3 /\ Len(given) = 3
     /\ parts[1] = <<"3", "9", "9", "9", "8">>
     /\ IsSome(PublicKeyParse(given[2]))
     /\ parts[2] = to_hex(Unwrap(PublicKeyParse(given[2])))
     /\ parts[3] = given[3]

\* C13: add_item given a coordinate issues no fetch, and once the reference
\* is resolved it is the canonical "39998:<author hex>:<identifier>" of the
\* string given, or add_item has returned INVALID_COORDINATE
C13_CoordinateNeedsNoFetch ==
  /\ (op.name = "add_item" /\ IsSome(op.header_coordinate))
       => hist.fetches = 0 /\ hist.received = 0
  /\ CoordinateResolved =>
       IF "parent_z_ref" \in DOMAIN loc
       THEN CanonicalFor(loc.parent_z_ref, Unwrap(op.header_coordinate))
       ELSE result = Err("INVALID_COORDINATE")

\* add_item has published an item under a coordinate spelled "+39998:...",
\* given together with a header id, without a fetch
C13_Witness ==
  /\ CoordinateResolved
  /\ pc = "done"
  /\ result.status = "ok"
  /\ IsSome(op.header)
  /\ Unwrap(op.header_coordinate) = <<"+">> \o CoordString(KindHeaderAddr, PkB, <<"a", ":", "b">>)
  /\ result.data.header_ref = CoordString(KindHeaderAddr, PkB, <<"a", ":", "b">>)
  /\ hist.fetches = 0


\* the canonical reference of a header: the coordinate of a kind-39998 header
\* with a d tag, the event id otherwise
CanonicalRef(h) ==
  IF h.kind = KindHeaderAddr /\ IsSome(header_d_tag(h))
  THEN CoordString(KindHeaderAddr, h.pubkey, Unwrap(header_d_tag(h)))
  ELSE to_hex(h.id)

\* the value of the first z tag among tags, None when there is none
RECURSIVE ZRef(_)
ZRef(tags) ==
  IF tags = <<>> THEN None
  ELSE IF Head(tags).k = "z" /\ Len(Head(tags).v) >= 1 THEN Some(Head(tags).v[1])
  ELSE ZRef(Tail(tags))

\* the items of the store that add_item published
Published == {e \in store : e.id = NewId /\ e.kind \in ItemKinds}

\* list_items for header h, by id or by its coordinate, has returned from a
\* relay that answers in full, with a limit that is large enough
ListedFor(h) ==
  /\ op.name = "list_items"
  /\ pc = "done"
  /\ mode = "newest"
  /\ conn.opened = 1
  /\ ~hist.failed
  /\ op.limit >= Cardinality(store)
  /\ IF IsSome(op.header_coordinate)
     THEN h.kind = KindHeaderAddr /\ Unwrap(op.header_coordinate) = CanonicalRef(h)
     ELSE op.header_id = Some(to_hex(h.id))

\* the items a successful list_items returned, none otherwise
ListedItems == IF result.status = "ok" THEN result.data.items ELSE <<>>

\* C14: an item that add_item published for header h is returned by
\* list_items for h and stands under h in a successful export, and every item
\* returned for h carries the canonical reference of h
C14_ItemsJoinByReference ==
  \A h \in {e \in store : e.kind \in HeaderKinds} :
    /\ ListedFor(h) =>
         /\ \A e \in Published :
              ZRef(e.tags) = Some(CanonicalRef(h))
                => \E i \in 1..Len(ListedItems) : ListedItems[i].event_id = to_hex(e.id)
         /\ \A i \in 1..Len(ListedItems) :
              ZRef(ListedItems[i].tags) = Some(CanonicalRef(h))
    /\ (ExportReturned /\ mode = "newest") =>
         \A i \in 1..Len(result.data.headers) :
           result.data.headers[i].header.event_id = to_hex(h.id) =>
             \A e \in Published :
               ZRef(e.tags) = Some(CanonicalRef(h))
                 => \E j \in 1..Len(result.data.headers[i].items) :
                      result.data.headers[i].items[j].event_id = to_hex(e.id)


\* the number of events the enumeration has to return
Wanted == Cardinality(Matching(op.base))

\* C15: over events of pairwise distinct timestamps served newest first, the
\* enumeration of N events with page size P is never past fetch N \div P when
\* it is about to fetch, so that it issues at most N \div P + 1 fetches, and it
\* returns each of the N events once
C15_FetchesBounded ==
  /\ (op.name = "enumerate" /\ pc = "fae") => hist.fetches <= Wanted \div FETCH_PAGE_SIZE
  /\ hist.fetches <= Wanted \div FETCH_PAGE_SIZE + 1
  /\ EnumReturned =>
       /\ NoRepeat(Ids(result.data))
       /\ {result.data[i] : i \in 1..Len(result.data)} = Matching(op.base)

\* five events have been enumerated in three fetches of two, two and one
C15_Witness ==
  /\ EnumReturned
  /\ Wanted = 5
  /\ Len(result.data) = 5
  /\ hist.fetches = 3
  /\ hist.received = 5


\* the next-page actions of a list_headers result
NextPageActions ==
  {i \in 1..Len(result.data.actions) : result.data.actions[i].label = "next"}

\* a record stands after the returned page in the sorted list
RecordAfterPage == result.data.total > op.offset + Len(result.data.headers)

\* has_more as the formula gives it, and the next-page action with it
HasMoreByFormula ==
  /\ result.data.has_more = (op.limit > 0 /\ op.offset + op.limit < result.data.total)
  /\ result.data.total = Cardinality(NameFiltered)
  /\ Cardinality(NextPageActions) = (IF result.data.has_more THEN 1 ELSE 0)
  /\ \A i \in NextPageActions :
       result.data.actions[i].q =
         header_query_command(op.author, op.tag, op.namef, op.offset + op.limit, op.limit)

\* C16 as claimed: has_more is the formula, the next-page action goes with
\* it, and has_more is true exactly when a record stands after the page, for
\* every limit
C16_HasMoreIffRecordAfter ==
  ListHeadersReturned =>
    /\ HasMoreByFormula
    /\ result.data.has_more = RecordAfterPage

\* C16 as the code has it: has_more is the formula and the next-page action
\* goes with it; has_more is true exactly when a record stands after the page
\* if limit > 0, and is false with limit = 0, where the page is empty
C16_HasMoreFormula ==
  ListHeadersReturned =>
    /\ HasMoreByFormula
    /\ op.limit > 0 => result.data.has_more = RecordAfterPage
    /\ op.limit = 0 => ~result.data.has_more /\ result.data.headers = <<>>

\* of three records the page at offset 1 with limit 3 is the last two, with
\* has_more false and no next-page action
C16_Witness ==
  /\ ListHeadersReturned
  /\ result.data.total = 3
  /\ op.offset = 1
  /\ op.limit = 3
  /\ Len(result.data.headers) = 2
  /\ ~result.data.has_more
  /\ NextPageActions = {}


Converted == op.name = "convert" /\ pc = "done"

\* C17: only RelayUnreachable is retryable, no two variants share a code, and
\* the CommandError made from an AppError has its code, its retryable flag
\* and its message
C17_ErrorCodes ==
  /\ \A v \in AppErrorVariants : retryable(AppError(v, op.err.field)) <=> v = "RelayUnreachable"
  /\ \A v1, v2 \in AppErrorVariants :
       code(AppError(v1, op.err.field)) = code(AppError(v2, op.err.field)) => v1 = v2
  /\ Converted =>
       /\ result.data.code = code(op.err)
       /\ result.data.retryable = (op.err.variant = "RelayUnreachable")
       /\ result.data.message = to_string(op.err)
       /\ result.data.message[2] = op.err.field

\* a RelayUnreachable error with a url has been converted and is retryable
C17_Witness ==
  /\ Converted
  /\ op.err = AppError("RelayUnreachable", <<"a", "/">>)
  /\ result.data.code = "RELAY_UNREACHABLE"
  /\ result.data.retryable


\* the positions of the colons of s
Colons(s) == {i \in 1..Len(s) : s[i] = ":"}

\* the position of the n-th colon of s
NthColon(s, n) ==
  CHOOSE i \in Colons(s) : Cardinality({j \in Colons(s) : j <= i}) = n

\* s has two colons or more, a 16-bit number before the first and a public
\* key between the first and the second
WellFormedCoordinate(s) ==
  /\ Cardinality(Colons(s)) >= 2
  /\ IsSome(ParseU16(SubSeq(s, 1, NthColon(s, 1) - 1)))
  /\ IsSome(PublicKeyParse(SubSeq(s, NthColon(s, 1) + 1, NthColon(s, 2) - 1)))

ParsedCoordinate == op.name = "parse_coordinate_str" /\ pc = "done"

\* C18: parse_coordinate_str accepts exactly the strings with two colons or
\* more whose first segment is a 16-bit number and whose second segment is a
\* public key, rejects every other string with INVALID_COORDINATE, and hands
\* back the text after the second colon as the identifier, unchanged
C18_ParseCoordinate ==
  ParsedCoordinate =>
    IF WellFormedCoordinate(op.input)
    THEN /\ result.status = "ok"
         /\ result.data[1] = Unwrap(ParseU16(SubSeq(op.input, 1, NthColon(op.input, 1) - 1)))
         /\ result.data[2] =
              Unwrap(PublicKeyParse(SubSeq(op.input, NthColon(op.input, 1) + 1,
                                           NthColon(op.input, 2) - 1)))
         /\ result.data[3] = SubSeq(op.input, NthColon(op.input, 2) + 1, Len(op.input))
    ELSE result = Err("INVALID_COORDINATE")

\* a coordinate whose identifier holds a colon has been parsed
C18_Witness ==
  /\ ParsedCoordinate
  /\ op.input = CoordString(KindHeader, PkB, <<"a", ":", "b">>)
  /\ result = Ok(<<KindHeader, PkB, <<"a", ":", "b">>>>)


\* C19: from one fetch of an enumeration to the next the until cursor gets
\* strictly smaller, whatever the relay returns
C19_CursorDecreases ==
  [][(pc = "fae" /\ pc' = "fae" /\ IsSome(fae.until_secs))
       => Unwrap(fae'.until_secs) < Unwrap(fae.until_secs)]_vars

\* C20: against a relay that honours filter, until bound and limit but picks
\* any matching events, the enumeration returns every matching event
C20_OrderIndependent ==
  EnumReturned => {result.data[i] : i \in 1..Len(result.data)} = Matching(op.base)

\* the actions of a list_headers result that carry a given label
ActionsLabelled(label) ==
  {i \in 1..Len(result.data.actions) : result.data.actions[i].label = label}

\* the previous-page action is offered exactly when offset > 0, once, and it
\* keeps the limit and the author, tag and name filters
PreviousOffered ==
  /\ Cardinality(ActionsLabelled("previous")) = (IF op.offset > 0 THEN 1 ELSE 0)
  /\ \A i \in ActionsLabelled("previous") :
       LET q == result.data.actions[i].q
       IN /\ q.cmd = "list-headers"
          /\ q.limit = op.limit
          /\ q.author = op.author
          /\ q.tag = op.tag
          /\ q.namef = op.namef

\* C21 as claimed: whenever offset > 0 a previous-page action is offered whose
\* offset is max(0, offset - limit), for every limit including 0, with the
\* same limit and filters; none is offered at offset 0
C21_PreviousByLimit ==
  ListHeadersReturned =>
    /\ PreviousOffered
    /\ \A i \in ActionsLabelled("previous") :
         result.data.actions[i].q.offset =
           (IF op.offset > op.limit THEN op.offset - op.limit ELSE 0)

\* C21 as the code has it: whenever offset > 0 a previous-page action is
\* offered whose offset is max(0, offset - max(limit, 1)), so that with
\* limit = 0 it is offset - 1, with the same limit and filters; none is
\* offered at offset 0
C21_PreviousByStep ==
  ListHeadersReturned =>
    /\ PreviousOffered
    /\ \A i \in ActionsLabelled("previous") :
         LET step == IF op.limit = 0 THEN 1 ELSE op.limit
         IN result.data.actions[i].q.offset =
              (IF op.offset > step THEN op.offset - step ELSE 0)

\* from offset 3 with limit 2 the previous page starts at 1, under a name
\* filter that the action keeps
C21_Witness ==
  /\ ListHeadersReturned
  /\ op.offset = 3
  /\ op.limit = 2
  /\ IsSome(op.namef)
  /\ \E i \in ActionsLabelled("previous") : result.data.actions[i].q.offset = 1

\* o is the largest multiple of step that is at most n
FloorMultiple(o, n, step) ==
  \E k \in 0..n : o = k * step /\ k * step <= n /\ n < (k + 1) * step

\* the recovery actions of a result all point to offset o with the limit and
\* the filters of the query
RecoveryKeepsQuery ==
  \A i \in ActionsLabelled("last") :
     LET q == result.data.actions[i].q
     IN /\ q.cmd = "list-headers"
        /\ q.limit = op.limit
        /\ q.author = op.author
        /\ q.tag = op.tag
        /\ q.namef = op.namef

\* C22 as claimed: with total > 0 and an offset beyond the last record one
\* recovery action is offered, at ((total-1) / limit) * limit, which is less
\* than total and a multiple of limit; none is offered with a non-empty page
C22_RecoveryByLimit ==
  ListHeadersReturned =>
    /\ RecoveryKeepsQuery
    /\ (result.data.total > 0 /\ op.offset >= result.data.total) =>
         /\ result.data.headers = <<>>
         /\ Cardinality(ActionsLabelled("last")) = 1
         /\ \A i \in ActionsLabelled("last") :
              LET o == result.data.actions[i].q.offset
              IN /\ FloorMultiple(o, result.data.total - 1, op.limit)
                 /\ o < result.data.total
    /\ result.data.headers # <<>> => ActionsLabelled("last") = {}

\* C22 as the code has it: one recovery action is offered exactly when
\* total > 0 and the page is empty (the offset is beyond the last record, or
\* limit = 0), at ((total-1) / step) * step with step = max(limit, 1), which
\* is less than total and a multiple of step; with limit = 0 it is total - 1
C22_RecoveryByStep ==
  ListHeadersReturned =>
    LET step == IF op.limit = 0 THEN 1 ELSE op.limit
    IN /\ RecoveryKeepsQuery
       /\ Cardinality(ActionsLabelled("last")) =
            (IF result.data.total > 0 /\ result.data.headers = <<>> THEN 1 ELSE 0)
       /\ (result.data.headers = <<>>) =
            (op.offset >= result.data.total \/ op.limit = 0)
       /\ \A i \in ActionsLabelled("last") :
            LET o == result.data.actions[i].q.offset
            IN /\ FloorMultiple(o, result.data.total - 1, step)
               /\ o < result.data.total
               /\ op.limit = 0 => o = result.data.total - 1

\* of three records the query at offset 3 with limit 2 gets an empty page and
\* the recovery offset 2
C22_Witness ==
  /\ ListHeadersReturned
  /\ result.data.total = 3
  /\ op.offset = 3
  /\ op.limit = 2
  /\ result.data.headers = <<>>
  /\ \E i \in ActionsLabelled("last") : result.data.actions[i].q.offset = 2

\* no record of a listing stands before an earlier one in the total order
Ordered(recs) ==
  \A i, j \in 1..Len(recs) : i < j => ~Before(recs[j], recs[i])

ListItemsReturned == op.name = "list_items" /\ pc = "done" /\ result.status = "ok"

\* C23: every listing the program outputs is in the total order (created_at
\* descending, event id ascending): the headers of list_headers, the headers
\* and the items per header of export, the items of list_items; the first
\* element a follow-up action uses is the first under that order
C23_ListingsInTotalOrder ==
  /\ ListHeadersReturned =>
       /\ Ordered(result.data.headers)
       /\ \A i \in ActionsLabelled("list-items") :
            result.data.actions[i].id = result.data.headers[1].event_id
  /\ ExportReturned =>
       /\ Ordered([i \in 1..Len(result.data.headers) |-> result.data.headers[i].header])
       /\ \A i \in 1..Len(result.data.headers) : Ordered(result.data.headers[i].items)
  /\ ListItemsReturned =>
       /\ Ordered(result.data.items)
       /\ \A i \in ActionsLabelled("inspect") :
            \A k \in 1..Len(result.data.items) :
               ~Before(result.data.items[k],
                       CHOOSE r \in Range(result.data.items) :
                          r.event_id = result.data.actions[i].id)

\* the operations whose fetches all propagate their failure
FailFast == {"list_headers", "export", "inspect"}

\* C24: a step of an operation sends at most one request, and after the first
\* failed fetch of list_headers, export or inspect the one step that follows
\* sends no request: it releases the connection and returns RelayUnreachable
C24_NoRequestAfterFailure ==
  [][/\ hist'.fetches <= hist.fetches + 1
     /\ (op.name \in FailFast /\ hist.failed) =>
          /\ hist'.fetches = hist.fetches
          /\ pc' = "done"
          /\ conn'.closed = conn.opened
          /\ result' = Err("RELAY_UNREACHABLE")]_vars

\* an export whose third fetch failed has returned
C24_Witness ==
  /\ op.name = "export"
  /\ pc = "done"
  /\ hist.failed
  /\ hist.fetches = 3
  /\ conn.closed = 1

\* C25: list_items returns at most `limit` items and no event id twice,
\* whether the header is given by coordinate or by the id of a kind-9998 or
\* kind-39998 header
C25_ItemsWithinLimit ==
  ListItemsReturned =>
    /\ Len(result.data.items) <= op.limit
    /\ result.data.count = Len(result.data.items)
    /\ \A i, j \in 1..Len(result.data.items) :
         result.data.items[i].event_id = result.data.items[j].event_id => i = j

\* the records of the header events of the store that pass the name filter
StoreHeaders ==
  {r \in {event_to_json(e) : e \in Matching(KindsFilter(HeaderKinds))} :
     IsSome(op.namef) =>
        /\ IsSome(r.name)
        /\ Contains(to_lowercase(Unwrap(r.name)), to_lowercase(Unwrap(op.namef)))}

\* the walk has come to a page without a next page
WalkEnded == ListHeadersReturned /\ ~result.data.has_more

\* the pages of the walk, the last one included, one after the other
Walked == hist.walk \o result.data.headers

\* C26: following the next-page action from offset 0 with limit > 0 until
\* has_more is false, against an unchanged store, visits every record of the
\* sorted, filtered list exactly once and in order, in ceil(total / limit)
\* pages
C26_WalkVisitsAll ==
  WalkEnded =>
    /\ Range(Walked) = StoreHeaders
    /\ Len(Walked) = Cardinality(StoreHeaders)
    /\ \A i, j \in 1..Len(Walked) : i < j => Before(Walked[i], Walked[j])
    /\ result.data.total = Cardinality(StoreHeaders)
    /\ (hist.calls + 1) * op.limit >= result.data.total
    /\ hist.calls * op.limit < result.data.total

\* five records walked in three pages of two
C26_Witness ==
  /\ WalkEnded
  /\ op.limit = 2
  /\ hist.calls = 2
  /\ Len(hist.walk) = 4
  /\ Len(Walked) = 5

\* C27: the list_headers command of a 'Jump to the last non-empty page'
\* action, run against the same store, returns a non-empty page, for every
\* offset and every limit
C27_RecoveryPageNonEmpty ==
  (ListHeadersReturned /\ hist.calls = 1) => result.data.headers # <<>>

CountDone == op.name = "count" /\ pc = "done" /\ result.status = "ok"

\* C28: in a successful count result the total of the headers is the sum of
\* the regular and the addressable ones, and likewise for the items, whether
\* a count came from the count request or from the enumeration
C28_CountTotalsAddUp ==
  CountDone =>
    /\ result.data.headers.total =
         result.data.headers.regular + result.data.headers.addressable
    /\ result.data.items.total =
         result.data.items.regular + result.data.items.addressable

\* list_items was given a coordinate and has returned after its connect
ListItemsByCoordinateDone ==
  /\ op.name = "list_items"
  /\ IsSome(op.header_coordinate)
  /\ pc = "done"
  /\ conn.opened = 1

\* C29: list_items rejects a coordinate with InvalidCoordinate exactly when
\* the coordinate branch of resolve_header_ref rejects it; a coordinate whose
\* kind is not 39998 is rejected by both
C29_SameCoordinatesAccepted ==
  ListItemsByCoordinateDone =>
    LET coord_str == Unwrap(op.header_coordinate)
        p == parse_coordinate_str(coord_str)
    IN /\ (result = Err("INVALID_COORDINATE"))
            = (ResolveCoordinate(coord_str) = Err("INVALID_COORDINATE"))
       /\ (IsSome(p) /\ Unwrap(p)[1] # KindHeaderAddr)
            => result = Err("INVALID_COORDINATE")

\* the event of the store a projected record was made from
EventOf(r) == CHOOSE e \in store : to_hex(e.id) = r.event_id

\* the canonical reference resolve_header_by_id derives for a header event,
\* None when it returns an error
ResolverRef(h) ==
  LET res == ResolveFetched(h.id, <<h>>)
  IN IF res.status = "ok" THEN Some(res.data) ELSE None

\* C30: the coordinate field of the projected record of a kind-39998 header
\* is the canonical reference the resolver derives for the event, also with
\* several d tags or a d tag without value; without a usable d tag the record
\* has no coordinate
C30_CoordinateIsCanonical ==
  ListHeadersReturned =>
    \A i \in 1..Len(result.data.headers) :
       LET r == result.data.headers[i]
           h == EventOf(r)
       IN r.kind = KindHeaderAddr =>
            /\ r.coordinate = ResolverRef(h)
            /\ IsSome(r.coordinate) = IsSome(header_d_tag(h))
            /\ IsSome(r.coordinate) => Unwrap(r.coordinate) = CanonicalRef(h)

====
